---- MODULE Spec2Model ----
(***************************************************************************)
(* Verification model of BlankDrive: the in-memory key manager             *)
(* (crypto/memoryGuard + crypto/keyManager), its process-exit cleanup,     *)
(* and the PNG LSB steganography codec (steganography/png-stego).          *)
(*                                                                         *)
(* Buffers of key material are abstracted to one natural number per        *)
(* buffer: 0 is the all-zero buffer, every other value is live content.    *)
(* Argon2id, HKDF and SHA-256 are modelled as injective arithmetic         *)
(* encodings of their inputs.                                              *)
(***************************************************************************)
EXTENDS Integers, Naturals, Sequences, FiniteSets, TLC

(***************************************************************************)
(* Bounds of the model                                                     *)
(***************************************************************************)
NumPasswords == 2
NumSalts == 1
TicksPerTimeout == 1
MaxTicks == 2
MaxWidth == 8
MaxHeight == 6
MaxDataLen == 3
MaxForgedDataLen == 2
NumPatterns == 2
MaxPayloadLen == 14
NumDraws == 2
MaxListLen == 3
NumEntries == 2
MaxFragsPerEntry == 2
MaxCarriers == 3
MaxTimeCost == 4
MaxMemoryLog2 == 17
MaxParallelism == 5
MaxUploads == 1
MaxApiRequests == 3

(***************************************************************************)
(* Program constants                                                       *)
(***************************************************************************)
DEFAULT_TIMEOUT_MS == 300000
DEFAULT_AUTOLOCK_MINUTES == 5
HEADER_SIZE == 16

TickMs == DEFAULT_TIMEOUT_MS \div TicksPerTimeout
MaxTime == MaxTicks * TickMs

NULL == -1
Passwords == 1..NumPasswords
Salts == 1..NumSalts
Holders == {"master", "index", "entry", "metadata"}
SubKeyHolders == {"index", "entry", "metadata"}

LOCKED_ERROR == "Vault is locked. Please unlock first."

VARIABLES
  key,              \* SecureKeyHolder.key: TRUE iff the holder references a buffer
  buf,              \* content of the buffer most recently allocated by each holder
  SECURE_BUFFERS,   \* holders whose buffer is in the tracked set
  timeoutId,        \* SecureKeyHolder.timeoutId: due time of the referenced timer, or NULL
  timers,           \* timers pending in the event loop: <<holder, due>>
  currentSalt,      \* keyManager.currentSalt
  keyHash,          \* keyManager.keyHash
  now,              \* monotonic clock (ms)
  procState,        \* "running" | "exited"
  cleanupInstalled, \* setupSecureCleanup() has registered its handlers
  vaultExists,      \* index file exists
  indexSalt,        \* salt persisted in the index file
  indexKeyHash,     \* verifier persisted in the index file
  inflight,         \* the unlock()/initVault() call awaiting key derivation, if any
  autoLockMinutes,  \* auto-lock setting chosen with the `autolock` command
  lastOp,           \* name of the operation that ran last
  lastResult,       \* its outcome
  lastPass,         \* last finished unlock(): <<passphrase, salt, verifier>> as read, or <<>>
  heldBefore,       \* some holder held a key before the last operation
  lastAccess,       \* per holder: time of the latest setKey()/getKey() on the held key
  expiryLag,        \* now - lastAccess when an expiry timer last cleared a key
  placedOff,        \* the held keys were installed while auto-lock was 0
  expiredOff,       \* an expiry timer cleared such a key while auto-lock was 0
  carrier,          \* carrier PNG: [width, height, data] with RGBA bytes
  payload,          \* bytes handed to embedInPNG
  embedRes,         \* "none" | "ok" | "CarrierTooSmall"
  embedChecksum,    \* EmbedResult.checksum (16 hex digits) or <<>>
  outFile,          \* PNG written at outputPath: <<>> while absent, else <<image>>
  pngData,          \* png.data held by embedInPNG when it returned or threw
  extractIn,        \* image handed to extractFromPNG: <<>> or <<image>>
  extractRes,       \* "none" | "ok" | "NoPayload" | "Truncated" | "Corrupt"
  extractData,      \* ExtractResult.data
  extractChecksum,  \* ExtractResult.checksum
  allocLen,         \* size passed to Buffer.alloc for the data buffer, or NULL
  fragIn,           \* arguments of fragmentData: <<data, maxChunkSize, minChunkSize>>
  fragRes,          \* "none" | "ok" | "TypeError"
  fragments,        \* Fragment[] returned by fragmentData
  deserIn,          \* buffer handed to deserializeFragment
  deserRes,         \* "none" | "ok" | "TooShort" | "Truncated" | "Corrupt"
  deserOut,         \* fragment it returned: <<>> or <<fragment>>
  reasmIn,          \* Fragment[] handed to reassembleFragments
  reasmRes,         \* "none" | "ok" | "NoFragments" | "Missing"
  reasmData,        \* Buffer it returned
  entryFragments,   \* vaultIndex.entries[id].fragments: Drive file ids per entry
  carriersDir,      \* files present in the vault's carriers/ directory
  driveFiles,       \* files on Drive: [id, entry, index, total] of the fragment each carries
  fileSeq,          \* number of file names generated so far
  sync,             \* locals of the running syncCommand
  created,          \* files in carriers/ written by the last call
  lastCall,         \* "none" | "syncCommand" | "uploadEntry" | "downloadEntry"
  kdfParams,        \* params of the last deriveKey call, or <<>>
  kdfRes,           \* "none" | "key" | "rejected": how that call settled
  kdfKey,           \* <<key>> the call resolved with, or <<>>
  webReq,           \* the request handed to requestHandler, or <<>>
  webThrown,        \* what the handler's try block threw, if anything
  webRes,           \* [status, body] written to the response; status 0: none yet
  vaultUnlocked,    \* isUnlocked() of the vault the Web UI serves
  uploadSessions,   \* uploadSessions: uploadId -> session, for the live sessions
  uploadFiles,      \* uploadId -> chunks appended to session.uploadPath, as <<index, bytes>>
  apiInflight,      \* requests suspended at an await inside their route
  addFileCalls,     \* uploadId -> number of addFileEntry calls made for that session
  apiLast,          \* the request answered last: what it was and how it was answered
  nextUploadId,     \* number of upload sessions created so far
  apiCount,         \* number of requests received so far
  shell             \* startShell: its position, its locals, and the duress and 2FA settings

kmVars == <<key, buf, SECURE_BUFFERS, timeoutId, timers, currentSalt, keyHash>>
envVars == <<now, procState, cleanupInstalled, vaultExists, indexSalt, indexKeyHash,
             inflight, autoLockMinutes>>
ghostVars == <<lastOp, lastResult, lastPass, heldBefore, lastAccess, expiryLag,
               placedOff, expiredOff>>
stegoVars == <<carrier, payload, embedRes, embedChecksum, outFile, pngData,
               extractIn, extractRes, extractData, extractChecksum, allocLen>>
fragVars == <<fragIn, fragRes, fragments, deserIn, deserRes, deserOut,
              reasmIn, reasmRes, reasmData>>
syncVars == <<entryFragments, carriersDir, driveFiles, fileSeq, sync, created, lastCall>>
kdfVars == <<kdfParams, kdfRes, kdfKey>>
webVars == <<webReq, webThrown, webRes>>
apiVars == <<vaultUnlocked, uploadSessions, uploadFiles, apiInflight, addFileCalls, apiLast, nextUploadId, apiCount>>
shellVars == <<shell>>
vars == <<kmVars, envVars, ghostVars, stegoVars, fragVars, syncVars, kdfVars, webVars, apiVars, shellVars>>

\* What the operations of one component leave alone.
nonKeyVars == <<stegoVars, fragVars, syncVars, kdfVars, webVars, apiVars, shellVars>>
nonStegoVars == <<kmVars, envVars, ghostVars, fragVars, syncVars, kdfVars, webVars, apiVars, shellVars>>
nonFragVars == <<kmVars, envVars, ghostVars, stegoVars, syncVars, kdfVars, webVars, apiVars, shellVars>>
nonSyncVars == <<kmVars, envVars, ghostVars, stegoVars, fragVars, kdfVars, webVars, apiVars, shellVars>>
nonKdfVars == <<kmVars, envVars, ghostVars, stegoVars, fragVars, syncVars, webVars, apiVars, shellVars>>
nonWebVars == <<kmVars, envVars, ghostVars, stegoVars, fragVars, syncVars, kdfVars, apiVars, shellVars>>
nonApiVars == <<kmVars, envVars, ghostVars, stegoVars, fragVars, syncVars, kdfVars, webVars, shellVars>>
nonShellVars == <<kmVars, envVars, ghostVars, stegoVars, fragVars, syncVars, kdfVars, webVars, apiVars>>
nonShellApiVars == <<kmVars, envVars, ghostVars, stegoVars, fragVars, syncVars, kdfVars, webVars>>

(***************************************************************************)
(* crypto/kdf.ts                                                           *)
(***************************************************************************)
deriveKey(password, salt) == 100 + 10 * password + salt

SubKeyContext(h) ==
  CASE h = "index" -> 1
    [] h = "entry" -> 2
    [] h = "metadata" -> 3

deriveSubKey(masterKey, context) == 10 * masterKey + context

deriveAllKeys(password, salt) ==
  LET masterKey == deriveKey(password, salt)
  IN [h \in Holders |->
        IF h = "master" THEN masterKey
        ELSE deriveSubKey(masterKey, SubKeyContext(h))]

hashKey(k) == 100000 + k

verifyPassword_alwaysValid(password, salt, expectedKeyHash) == TRUE

verifyPassword(password, salt, expectedKeyHash) ==
  hashKey(deriveKey(password, salt)) = expectedKeyHash

(***************************************************************************)
(* crypto/memoryGuard.ts: the key-manager state as one record              *)
(***************************************************************************)
KM == [key |-> key, buf |-> buf, tracked |-> SECURE_BUFFERS,
       timeoutId |-> timeoutId, timers |-> timers]

\* wipeBuffer(this.key) of holder h: random fill, zero fill, untrack.
wipeBuffer(S, h) ==
  [S EXCEPT !.buf[h] = 0, !.tracked = @ \ {h}]

clearTimeout(S, h) ==
  [S EXCEPT !.timers = @ \ {<<h, S.timeoutId[h]>>}]

clear(S, h) ==
  LET S1 == IF S.timeoutId[h] # NULL
            THEN [clearTimeout(S, h) EXCEPT !.timeoutId[h] = NULL]
            ELSE S
  IN IF S1.key[h]
     THEN [wipeBuffer(S1, h) EXCEPT !.key[h] = FALSE]
     ELSE S1

resetTimeout(S, h, t) ==
  LET S1 == IF S.timeoutId[h] # NULL THEN clearTimeout(S, h) ELSE S
  IN [S1 EXCEPT !.timeoutId[h] = t + DEFAULT_TIMEOUT_MS,
                !.timers = @ \cup {<<h, t + DEFAULT_TIMEOUT_MS>>}]

setKey(S, h, k, t) ==
  LET S1 == clear(S, h)
      S2 == [S1 EXCEPT !.key[h] = TRUE, !.buf[h] = k, !.tracked = @ \cup {h}]
  IN resetTimeout(S2, h, t)

getKey_noReset(S, h, t) == S

getKey(S, h, t) ==
  IF S.key[h] THEN resetTimeout(S, h, t) ELSE S

hasKey(S, h) == S.key[h]

RECURSIVE wipeAllFrom(_, _)
wipeAllFrom(S, hs) ==
  IF hs = {} THEN S
  ELSE LET h == CHOOSE x \in hs : TRUE
       IN wipeAllFrom(wipeBuffer(S, h), hs \ {h})

wipeAllSecureBuffers(S) ==
  [wipeAllFrom(S, S.tracked) EXCEPT !.tracked = {}]

(***************************************************************************)
(* crypto/keyManager.ts                                                    *)
(***************************************************************************)
InstallKeys(S, keys, t) ==
  setKey(setKey(setKey(setKey(S, "master", keys["master"], t),
                       "index", keys["index"], t),
                "entry", keys["entry"], t),
         "metadata", keys["metadata"], t)

lockVault_skipEntry(S) ==
  clear(clear(clear(S, "master"), "index"), "metadata")

lockVault(S) ==
  clear(clear(clear(clear(S, "master"), "index"), "entry"), "metadata")

isVaultUnlocked == hasKey(KM, "master")

\* Outcome of getIndexKey()/getEntryKey()/getMetadataKey() in the current state.
GetKeyOutcome(h) ==
  IF getKey(KM, h, now).key[h] THEN "ok" ELSE LOCKED_ERROR

HeldNow == {h \in Holders : key[h]}

SetKM(S) ==
  /\ key' = S.key
  /\ buf' = S.buf
  /\ SECURE_BUFFERS' = S.tracked
  /\ timeoutId' = S.timeoutId
  /\ timers' = S.timers

Ghost(op, res) ==
  /\ lastOp' = op
  /\ lastResult' = res
  /\ heldBefore' = (HeldNow # {})

Running == procState = "running"

\* unlockVault(password, salt), from the point where deriveAllKeys has resolved.
unlockVault(password, salt) ==
  LET keys == deriveAllKeys(password, salt)
  IN /\ SetKM(InstallKeys(KM, keys, now))
     /\ currentSalt' = salt
     /\ keyHash' = hashKey(keys["master"])

\* createVault(password), from the point where deriveAllKeys has resolved
\* with the freshly generated salt.
createVault(password, salt) ==
  LET keys == deriveAllKeys(password, salt)
  IN /\ SetKM(InstallKeys(KM, keys, now))
     /\ currentSalt' = salt
     /\ keyHash' = hashKey(keys["master"])

initializeKeyManager == cleanupInstalled' = TRUE

(***************************************************************************)
(* Operations of the key manager and its callers                           *)
(***************************************************************************)
InitializeKeyManager ==
  /\ Running
  /\ initializeKeyManager
  /\ UNCHANGED <<kmVars, now, procState, vaultExists, indexSalt, indexKeyHash,
                 inflight, autoLockMinutes, ghostVars, nonKeyVars>>

\* unlock(password) of the vault manager is entered: the index file is read.
\* CLI callers run initializeKeyManager() first and only when locked; the
\* Web UI endpoint /api/unlock does neither.
UnlockBegin(p, viaCli) ==
  /\ Running
  /\ vaultExists
  /\ viaCli => ~isVaultUnlocked
  /\ inflight = {}
  /\ cleanupInstalled' = (cleanupInstalled \/ viaCli)
  /\ inflight' = inflight \cup {[op |-> "unlock", password |-> p,
                                 salt |-> indexSalt, expected |-> indexKeyHash]}
  /\ UNCHANGED <<kmVars, now, procState, vaultExists, indexSalt, indexKeyHash,
                 autoLockMinutes, ghostVars, nonKeyVars>>

\* unlock(password) completes: verifier check, then unlockVault.
UnlockFinish(r) ==
  /\ Running
  /\ r \in inflight
  /\ r.op = "unlock"
  /\ inflight' = inflight \ {r}
  /\ lastPass' = <<r.password, r.salt, r.expected>>
  /\ IF verifyPassword(r.password, r.salt, r.expected)
     THEN /\ unlockVault(r.password, r.salt)
          /\ Ghost("unlockVault", "ok")
          /\ lastAccess' = [h \in Holders |-> now]
          /\ placedOff' = (autoLockMinutes = 0)
     ELSE /\ Ghost("unlockRejected", "BadPassphrase")
          /\ UNCHANGED <<kmVars, lastAccess, placedOff>>
  /\ UNCHANGED <<now, procState, cleanupInstalled, vaultExists, indexSalt,
                 indexKeyHash, autoLockMinutes,
                 expiryLag, expiredOff, nonKeyVars>>

\* initVault(password) is entered (initCommand or POST /api/init).
InitVaultBegin(p, viaCli) ==
  /\ Running
  /\ ~vaultExists
  /\ inflight = {}
  /\ cleanupInstalled' = (cleanupInstalled \/ viaCli)
  /\ inflight' = inflight \cup {[op |-> "init", password |-> p,
                                 salt |-> NULL, expected |-> NULL]}
  /\ UNCHANGED <<kmVars, now, procState, vaultExists, indexSalt, indexKeyHash,
                 autoLockMinutes, ghostVars, nonKeyVars>>

\* initVault(password) completes: createVault, then the index is written.
InitVaultFinish(r, salt) ==
  /\ Running
  /\ r \in inflight
  /\ r.op = "init"
  /\ inflight' = inflight \ {r}
  /\ createVault(r.password, salt)
  /\ vaultExists' = TRUE
  /\ indexSalt' = salt
  /\ indexKeyHash' = hashKey(deriveKey(r.password, salt))
  /\ Ghost("createVault", "ok")
  /\ lastAccess' = [h \in Holders |-> now]
  /\ placedOff' = (autoLockMinutes = 0)
  /\ UNCHANGED <<now, procState, cleanupInstalled, autoLockMinutes, lastPass, expiryLag, expiredOff, nonKeyVars>>

Lock ==
  /\ Running
  /\ SetKM(lockVault(KM))
  /\ currentSalt' = NULL
  /\ keyHash' = NULL
  /\ Ghost("lockVault", "ok")
  /\ lastAccess' = [h \in Holders |-> NULL]
  /\ UNCHANGED <<envVars, lastPass, expiryLag, placedOff, expiredOff, nonKeyVars>>

\* getIndexKey() / getEntryKey() / getMetadataKey()
GetSubKey(h) ==
  /\ Running
  /\ SetKM(getKey(KM, h, now))
  /\ Ghost("getKey", GetKeyOutcome(h))
  /\ lastAccess' = IF key[h] THEN [lastAccess EXCEPT ![h] = now] ELSE lastAccess
  /\ UNCHANGED <<currentSalt, keyHash, envVars, lastPass, expiryLag, placedOff,
                 expiredOff, nonKeyVars>>

\* The callback of a holder's setTimeout runs: this.clear().
TimerFire(h, due) ==
  /\ Running
  /\ <<h, due>> \in timers
  /\ now >= due
  /\ SetKM(clear([KM EXCEPT !.timers = @ \ {<<h, due>>}], h))
  /\ expiryLag' = IF key[h] THEN now - lastAccess[h] ELSE expiryLag
  /\ expiredOff' = (expiredOff \/ (key[h] /\ placedOff /\ autoLockMinutes = 0))
  /\ lastAccess' = [lastAccess EXCEPT ![h] = NULL]
  /\ Ghost("timerExpiry", "ok")
  /\ UNCHANGED <<currentSalt, keyHash, envVars, lastPass, placedOff, nonKeyVars>>

Min(S) == CHOOSE x \in S : \A y \in S : x <= y

\* Time passes, up to the next due timer: a due timer runs before later time.
Tick ==
  /\ Running
  /\ now < MaxTime
  /\ \A t \in timers : t[2] > now
  /\ now' = Min({now + TickMs, MaxTime} \cup {t[2] : t \in timers})
  /\ UNCHANGED <<kmVars, procState, cleanupInstalled, vaultExists, indexSalt,
                 indexKeyHash, inflight, autoLockMinutes,
                 ghostVars, nonKeyVars>>

ExitKinds == {"exit", "SIGINT", "SIGTERM", "uncaughtException"}

\* The process terminates. The handlers of setupSecureCleanup run only if
\* they were registered.
ProcessExit(kind) ==
  /\ Running
  /\ procState' = "exited"
  /\ IF cleanupInstalled
     THEN SetKM(wipeAllSecureBuffers(KM))
     ELSE UNCHANGED <<key, buf, SECURE_BUFFERS, timeoutId, timers>>
  /\ Ghost("processExit", kind)
  /\ UNCHANGED <<currentSalt, keyHash, now, cleanupInstalled, vaultExists,
                 indexSalt, indexKeyHash, inflight, autoLockMinutes, lastPass, lastAccess, expiryLag, placedOff,
                 expiredOff, nonKeyVars>>

AutolockArgs == {-1, 0, 5}

\* The shell's `autolock <minutes>` command.
SetAutoLock(minutes) ==
  /\ Running
  /\ IF minutes < 0
     THEN /\ UNCHANGED autoLockMinutes
          /\ Ghost("autolock", "Invalid value")
     ELSE /\ autoLockMinutes' = minutes
          /\ Ghost("autolock", IF minutes = 0 THEN "ok:0" ELSE "ok")
  /\ UNCHANGED <<kmVars, now, procState, cleanupInstalled, vaultExists, indexSalt,
                 indexKeyHash, inflight, lastPass,
                 lastAccess, expiryLag, placedOff, expiredOff, nonKeyVars>>

StegoIdle ==
  /\ carrier = [width |-> 0, height |-> 0, data |-> <<>>]
  /\ payload = <<>>
  /\ embedRes = "none"
  /\ embedChecksum = <<>>
  /\ outFile = <<>>
  /\ pngData = <<>>
  /\ extractIn = <<>>
  /\ extractRes = "none"
  /\ extractData = <<>>
  /\ extractChecksum = <<>>
  /\ allocLen = NULL

KeysIdle ==
  /\ key = [h \in Holders |-> FALSE]
  /\ buf = [h \in Holders |-> 0]
  /\ SECURE_BUFFERS = {}
  /\ timeoutId = [h \in Holders |-> NULL]
  /\ timers = {}
  /\ currentSalt = NULL
  /\ keyHash = NULL
  /\ now = 0
  /\ procState = "running"
  /\ cleanupInstalled = FALSE
  /\ inflight = {}
  /\ autoLockMinutes = DEFAULT_AUTOLOCK_MINUTES
  /\ lastOp = "start"
  /\ lastResult = "ok"
  /\ lastPass = <<>>
  /\ heldBefore = FALSE
  /\ lastAccess = [h \in Holders |-> NULL]
  /\ expiryLag = NULL
  /\ placedOff = FALSE
  /\ expiredOff = FALSE

FragIdle ==
  /\ fragIn = <<>>
  /\ fragRes = "none"
  /\ fragments = <<>>
  /\ deserIn = <<>>
  /\ deserRes = "none"
  /\ deserOut = <<>>
  /\ reasmIn = <<>>
  /\ reasmRes = "none"
  /\ reasmData = <<>>

\* No request answered yet.
NoRequest ==
  [route |-> "none", method |-> "", loopback |-> FALSE, uiHeader |-> FALSE,
   idOk |-> FALSE, locked |-> FALSE, status |-> 0, vaultOps |-> {},
   sessionsChanged |-> FALSE]

ApiIdle ==
  /\ vaultUnlocked = FALSE
  /\ uploadSessions = <<>>
  /\ uploadFiles = <<>>
  /\ apiInflight = {}
  /\ addFileCalls = <<>>
  /\ apiLast = NoRequest
  /\ nextUploadId = 0
  /\ apiCount = 0

ShellIdle == shell = [pc |-> "none"]

WebIdle ==
  /\ webReq = <<>>
  /\ webThrown = [kind |-> "none", statusCode |-> 0, message |-> ""]
  /\ webRes = [status |-> 0, body |-> <<>>]

KdfIdle ==
  /\ kdfParams = <<>>
  /\ kdfRes = "none"
  /\ kdfKey = <<>>

SyncIdle ==
  /\ entryFragments = <<>>
  /\ carriersDir = {}
  /\ driveFiles = {}
  /\ fileSeq = 0
  /\ sync = [pc |-> "idle"]
  /\ created = {}
  /\ lastCall = "none"

\* A fresh process: no keys in memory; the vault may already be on disk.
Init ==
  /\ KeysIdle
  /\ StegoIdle
  /\ FragIdle
  /\ ShellIdle
  /\ ApiIdle
  /\ WebIdle
  /\ KdfIdle
  /\ SyncIdle
  /\ \/ /\ vaultExists = FALSE
        /\ indexSalt = NULL
        /\ indexKeyHash = NULL
     \/ /\ vaultExists = TRUE
        /\ \E p \in Passwords, s \in Salts :
             /\ indexSalt = s
             /\ indexKeyHash = hashKey(deriveKey(p, s))

Next ==
  \/ InitializeKeyManager
  \/ \E p \in Passwords, viaCli \in BOOLEAN : UnlockBegin(p, viaCli)
  \/ \E r \in inflight : UnlockFinish(r)
  \/ \E p \in Passwords, viaCli \in BOOLEAN : InitVaultBegin(p, viaCli)
  \/ \E r \in inflight, s \in Salts : InitVaultFinish(r, s)
  \/ Lock
  \/ \E h \in SubKeyHolders : GetSubKey(h)
  \/ \E t \in timers : TimerFire(t[1], t[2])
  \/ Tick
  \/ \E k \in ExitKinds : ProcessExit(k)

Spec == Init /\ [][Next]_vars

\* The shell session with the `autolock` command and configuration loading.
NextAutoLock ==
  \/ \E m \in AutolockArgs : SetAutoLock(m)
  \/ \E p \in Passwords, viaCli \in BOOLEAN : UnlockBegin(p, viaCli)
  \/ \E r \in inflight : UnlockFinish(r)
  \/ Lock
  \/ \E t \in timers : TimerFire(t[1], t[2])
  \/ Tick

SpecAutoLock == Init /\ [][NextAutoLock]_vars

(***************************************************************************)
(* crypto/random.ts: calculateChecksum / verifyChecksum                    *)
(* SHA-256 is modelled by a position-sensitive mixing sum; only its first  *)
(* eight bytes are used.                                                   *)
(***************************************************************************)
RECURSIVE MixSum(_, _, _)
MixSum(data, i, j) ==
  IF i > Len(data) THEN 31 * j + Len(data)
  ELSE (data[i] + 1) * (i + j) + MixSum(data, i + 1, j)

sha256(data) == [j \in 1..8 |-> MixSum(data, 1, j) % 256]

\* Buffer.toString('hex'): two hex digits per byte, high nibble first.
RECURSIVE ToHex(_)
ToHex(bytes) ==
  IF bytes = <<>> THEN <<>>
  ELSE <<Head(bytes) \div 16, Head(bytes) % 16>> \o ToHex(Tail(bytes))

\* Buffer.from(hex, 'hex')
RECURSIVE FromHex(_)
FromHex(hex) ==
  IF Len(hex) < 2 THEN <<>>
  ELSE <<16 * hex[1] + hex[2]>> \o FromHex(SubSeq(hex, 3, Len(hex)))

calculateChecksum(data) == ToHex(SubSeq(sha256(data), 1, 8))

verifyChecksum_alwaysTrue(data, checksum) == TRUE

verifyChecksum(data, checksum) == calculateChecksum(data) = checksum

(***************************************************************************)
(* steganography/png-stego.ts                                              *)
(***************************************************************************)
MAGIC_BYTES == <<83, 76, 83, 72>>

calculateCapacity_noHeader(width, height) == (width * height * 3) \div 8

calculateCapacity(width, height) ==
  LET totalBits == width * height * 3
      totalBytes == totalBits \div 8
  IN totalBytes - HEADER_SIZE

\* header.writeUInt32BE(n, 4)
UInt32BE(n) ==
  <<(n \div 16777216) % 256, (n \div 65536) % 256, (n \div 256) % 256, n % 256>>

ReadUInt32BE_low24(b) == (b[2] * 256 + b[3]) * 256 + b[4]

\* header.readUInt32BE(4)
ReadUInt32BE(b) == ((b[1] * 256 + b[2]) * 256 + b[3]) * 256 + b[4]

createHeader(dataLength, checksum) ==
  MAGIC_BYTES \o UInt32BE(dataLength) \o FromHex(checksum)

parseHeader(header) ==
  IF SubSeq(header, 1, 4) # MAGIC_BYTES
  THEN [ok |-> FALSE, length |-> 0, checksum |-> <<>>]
  ELSE [ok |-> TRUE,
        length |-> ReadUInt32BE(SubSeq(header, 5, 8)),
        checksum |-> ToHex(SubSeq(header, 9, 16))]

\* (payload[byteIndex] >> bitPos) & 1, with byteIndex counted from 0
PayloadBit_lsbFirst(bytes, byteIndex, bitPos) ==
  (bytes[byteIndex + 1] \div (2 ^ (7 - bitPos))) % 2

PayloadBit(bytes, byteIndex, bitPos) ==
  (bytes[byteIndex + 1] \div (2 ^ bitPos)) % 2

\* (value & 0xFE) | bit
SetLSB(value, bit) == (value - (value % 2)) + bit

\* One `if (byteIndex < payloadLength) { ... }` block of embedInPNG, writing
\* png.data[i] (i counted from 0).
EmbedChannel(st, bytes, i) ==
  IF st.byteIndex < Len(bytes)
  THEN LET bit == PayloadBit(bytes, st.byteIndex, st.bitPos)
       IN [data |-> [st.data EXCEPT ![i + 1] = SetLSB(@, bit)],
           byteIndex |-> IF st.bitPos = 0 THEN st.byteIndex + 1 ELSE st.byteIndex,
           bitPos |-> IF st.bitPos = 0 THEN 7 ELSE st.bitPos - 1]
  ELSE st

EmbedPixel_withAlpha(st, bytes, idx) ==
  EmbedChannel(EmbedChannel(EmbedChannel(EmbedChannel(st, bytes, idx),
                                         bytes, idx + 1),
                            bytes, idx + 2),
               bytes, idx + 3)

EmbedPixel(st, bytes, idx) ==
  EmbedChannel(EmbedChannel(EmbedChannel(st, bytes, idx), bytes, idx + 1),
               bytes, idx + 2)

\* The nested y/x loops of embedInPNG, from pixel (x, y) on.
RECURSIVE EmbedLoop(_, _, _, _, _, _)
EmbedLoop(st, bytes, width, height, y, x) ==
  IF y >= height THEN st
  ELSE IF x >= width THEN EmbedLoop(st, bytes, width, height, y + 1, 0)
  ELSE IF st.byteIndex >= Len(bytes) THEN st
  ELSE EmbedLoop(EmbedPixel(st, bytes, (width * y + x) * 4),
                 bytes, width, height, y, x + 1)

embedInPNG(png, data) ==
  LET capacity == calculateCapacity(png.width, png.height)
  IN IF Len(data) > capacity
     THEN [res |-> "CarrierTooSmall", capacity |-> capacity, checksum |-> <<>>,
           bytesEmbedded |-> 0, data |-> png.data, saved |-> FALSE]
     ELSE LET checksum == calculateChecksum(data)
              header == createHeader(Len(data), checksum)
              bytes == header \o data
              st == EmbedLoop([data |-> png.data, byteIndex |-> 0, bitPos |-> 7],
                              bytes, png.width, png.height, 0, 0)
          IN [res |-> "ok", capacity |-> capacity, checksum |-> checksum,
              bytesEmbedded |-> Len(data), data |-> st.data, saved |-> TRUE]

\* State of extractFromPNG before the loops.
ExtractStart ==
  [headerBuffer |-> [i \in 1..HEADER_SIZE |-> 0],
   headerByteIndex |-> 0, headerBitPos |-> 7, currentHeaderByte |-> 0,
   hasData |-> FALSE, dataLen |-> 0, dataBytes |-> <<>>,
   dataByteIndex |-> 0, dataBitPos |-> 7, currentDataByte |-> 0,
   checksum |-> <<>>, allocLen |-> NULL, err |-> "none", done |-> FALSE]

\* Body of the `for c` loop of extractFromPNG for one channel value.
\* dataBuffer is kept as its length plus the bytes written so far.
ExtractChannel(st, val) ==
  IF st.err # "none" \/ st.done THEN st
  ELSE
  LET bit == val % 2
  IN IF st.headerByteIndex < HEADER_SIZE
     THEN LET cur == 2 * st.currentHeaderByte + bit
          IN IF st.headerBitPos - 1 < 0
             THEN LET hb == [st.headerBuffer EXCEPT ![st.headerByteIndex + 1] = cur % 256]
                      st1 == [st EXCEPT !.headerBuffer = hb,
                                        !.headerByteIndex = @ + 1,
                                        !.headerBitPos = 7,
                                        !.currentHeaderByte = 0]
                  IN IF st1.headerByteIndex = HEADER_SIZE
                     THEN LET headerInfo == parseHeader(hb)
                          IN IF ~headerInfo.ok
                             THEN [st1 EXCEPT !.err = "NoPayload"]
                             ELSE [st1 EXCEPT !.checksum = headerInfo.checksum,
                                              !.hasData = TRUE,
                                              !.dataLen = headerInfo.length,
                                              !.allocLen = headerInfo.length]
                     ELSE st1
             ELSE [st EXCEPT !.currentHeaderByte = cur, !.headerBitPos = @ - 1]
     ELSE IF st.hasData /\ st.dataByteIndex < st.dataLen
     THEN LET cur == 2 * st.currentDataByte + bit
          IN IF st.dataBitPos - 1 < 0
             THEN [st EXCEPT !.dataBytes = Append(@, cur % 256),
                             !.dataByteIndex = @ + 1,
                             !.dataBitPos = 7,
                             !.currentDataByte = 0,
                             !.done = (st.dataByteIndex + 1 = st.dataLen)]
             ELSE [st EXCEPT !.currentDataByte = cur, !.dataBitPos = @ - 1]
     ELSE st

ExtractPixel(st, data, idx) ==
  ExtractChannel(ExtractChannel(ExtractChannel(st, data[idx + 1]), data[idx + 2]),
                 data[idx + 3])

\* The nested y/x loops of extractFromPNG, from pixel (x, y) on.
RECURSIVE ExtractLoop(_, _, _, _, _, _)
ExtractLoop(st, data, width, height, y, x) ==
  IF y >= height THEN st
  ELSE IF x >= width THEN ExtractLoop(st, data, width, height, y + 1, 0)
  ELSE IF st.err # "none" \/ st.done THEN st
  ELSE ExtractLoop(ExtractPixel(st, data, (width * y + x) * 4),
                   data, width, height, y, x + 1)

\* Error kinds: "NoPayload" is 'No hidden data found in image (Invalid header)',
\* "Truncated" is 'No hidden data found in image (Incomplete data)',
\* "Corrupt" is 'Data integrity check failed: checksum mismatch'.
extractFromPNG(png) ==
  LET st == ExtractLoop(ExtractStart, png.data, png.width, png.height, 0, 0)
      fail(kind) == [res |-> kind, data |-> <<>>, checksum |-> <<>>,
                     allocLen |-> st.allocLen]
  IN IF st.err # "none" THEN fail(st.err)
     ELSE IF ~st.hasData \/ st.dataByteIndex < st.dataLen THEN fail("Truncated")
     ELSE IF ~verifyChecksum(st.dataBytes, st.checksum) THEN fail("Corrupt")
     ELSE [res |-> "ok", data |-> st.dataBytes, checksum |-> st.checksum,
           allocLen |-> st.allocLen]

(***************************************************************************)
(* Inputs of the codec: carriers, payloads and hand-crafted stego files    *)
(***************************************************************************)
Widths == 7..MaxWidth
Heights == 5..MaxHeight
Patterns == 0..(NumPatterns - 1)
PayloadBytes == {83, 200}

\* RGBA bytes of a carrier: pattern 0 is opaque white, the others are ramps.
CarrierImage(width, height, pat) ==
  [width |-> width, height |-> height,
   data |-> [i \in 1..(width * height * 4) |-> (37 * pat * i + 255) % 256]]

Payloads == UNION {[1..n -> PayloadBytes] : n \in 0..MaxDataLen}

\* A PNG whose RGB least-significant bits carry `bytes` from the first
\* channel on, as far as the image reaches: any file may be given to extract.
ImageCarrying(png, bytes) ==
  [png EXCEPT !.data = EmbedLoop([data |-> png.data, byteIndex |-> 0, bitPos |-> 7],
                                 bytes, png.width, png.height, 0, 0).data]

BAD_MAGIC == <<83, 76, 83, 88>>

\* Length fields a crafted header may carry; the largest is 0x7FFFFFFF
\* (the model's integers end there, the field itself reaches 0xFFFFFFFF).
HugeLength == 127 * 16777216 + 16777215
ForgedLengths(n) == {0, n, n + 1, HugeLength}

ForgedHeader(magicOk, length, checksumOk, data) ==
  LET cs == sha256(data)
  IN (IF magicOk THEN MAGIC_BYTES ELSE BAD_MAGIC)
     \o UInt32BE(length)
     \o (IF checksumOk THEN SubSeq(cs, 1, 8)
         ELSE <<(cs[1] + 1) % 256>> \o SubSeq(cs, 2, 8))

(***************************************************************************)
(* Operations of the codec                                                 *)
(***************************************************************************)
Embed ==
  /\ embedRes = "none"
  /\ extractRes = "none"
  /\ \E r \in {embedInPNG(carrier, payload)} :
       /\ embedRes' = r.res
       /\ embedChecksum' = r.checksum
       /\ pngData' = r.data
       /\ outFile' = IF r.saved THEN <<[carrier EXCEPT !.data = r.data]>> ELSE <<>>
  /\ UNCHANGED <<carrier, payload, extractIn, extractRes, extractData,
                 extractChecksum, allocLen, nonStegoVars>>

DoExtract(png) ==
  \E r \in {extractFromPNG(png)} :
     /\ extractIn' = <<png>>
     /\ extractRes' = r.res
     /\ extractData' = r.data
     /\ extractChecksum' = r.checksum
     /\ allocLen' = r.allocLen

\* extractFromPNG on the file embedInPNG wrote.
ExtractEmbedded ==
  /\ embedRes = "ok"
  /\ extractRes = "none"
  /\ DoExtract(outFile[1])
  /\ UNCHANGED <<carrier, payload, embedRes, embedChecksum, outFile, pngData,
                 nonStegoVars>>

\* extractFromPNG on the untouched carrier.
ExtractCarrier ==
  /\ embedRes = "none"
  /\ extractRes = "none"
  /\ DoExtract(carrier)
  /\ UNCHANGED <<carrier, payload, embedRes, embedChecksum, outFile, pngData,
                 nonStegoVars>>

\* extractFromPNG on a file somebody else produced.
ExtractForged(magicOk, length, checksumOk) ==
  /\ embedRes = "none"
  /\ extractRes = "none"
  /\ Len(payload) <= MaxForgedDataLen
  /\ DoExtract(ImageCarrying(carrier,
                             ForgedHeader(magicOk, length, checksumOk, payload)
                             \o payload))
  /\ UNCHANGED <<carrier, payload, embedRes, embedChecksum, outFile, pngData,
                 nonStegoVars>>

\* The stego file with the least-significant bit of the R/G/B channel at
\* position q of the bit stream inverted.
FlipBit(png, q) ==
  [png EXCEPT !.data[(q \div 3) * 4 + (q % 3) + 1] =
                 IF @ % 2 = 0 THEN @ + 1 ELSE @ - 1]

\* Bit positions of the header's length and checksum fields (bytes 4..15).
\* Position 32, the top bit of the length, is left out: with it set the
\* length is 2^31 or more, past the model's integers and past every image.
TamperBits == 33..(8 * HEADER_SIZE - 1)

\* extractFromPNG on the written file after one header bit was flipped.
ExtractTampered(q) ==
  /\ embedRes = "ok"
  /\ extractRes = "none"
  /\ DoExtract(FlipBit(outFile[1], q))
  /\ UNCHANGED <<carrier, payload, embedRes, embedChecksum, outFile, pngData,
                 nonStegoVars>>

KeysAtRest ==
  /\ KeysIdle
  /\ vaultExists = FALSE
  /\ indexSalt = NULL
  /\ indexKeyHash = NULL

InitStego ==
  /\ KeysAtRest
  /\ FragIdle
  /\ ShellIdle
  /\ ApiIdle
  /\ WebIdle
  /\ KdfIdle
  /\ SyncIdle
  /\ \E w \in Widths, h \in Heights, pat \in Patterns :
       carrier = CarrierImage(w, h, pat)
  /\ payload \in Payloads
  /\ embedRes = "none"
  /\ embedChecksum = <<>>
  /\ outFile = <<>>
  /\ pngData = <<>>
  /\ extractIn = <<>>
  /\ extractRes = "none"
  /\ extractData = <<>>
  /\ extractChecksum = <<>>
  /\ allocLen = NULL

NextStego ==
  \/ Embed
  \/ ExtractEmbedded
  \/ ExtractCarrier
  \/ \E magicOk \in BOOLEAN, checksumOk \in BOOLEAN,
        length \in ForgedLengths(Len(payload)) :
       ExtractForged(magicOk, length, checksumOk)

SpecStego == InitStego /\ [][NextStego]_vars

NextTamper ==
  \/ Embed
  \/ \E q \in TamperBits : ExtractTampered(q)

SpecTamper == InitStego /\ [][NextTamper]_vars

(***************************************************************************)
(* obfuscation/fragmenter.ts                                               *)
(***************************************************************************)
FRAGMENT_HEADER_SIZE == 16

MathMin(a, b) == IF a <= b THEN a ELSE b
MathMax(a, b) == IF a >= b THEN a ELSE b

\* The loop `for (let i = 0; i < actualFragments - 1; i++)`, from iteration i
\* on.  avgRemaining * 0.3 is the fraction 3*remainingBytes /
\* (10*remainingFragments); crypto.randomInt rejects a bound that is not an
\* integer with a TypeError.  (For the remainders below 70 that reach the
\* uncapped branch here, the double product is an integer exactly when the
\* fraction is.)  draws[..] = -1, 0, 1 selects the low end, the middle or the
\* high end of randomInt's range.
RECURSIVE ChunkLoop(_, _, _, _, _, _, _)
ChunkLoop(i, remainingBytes, chunkSizes, actualFragments, maxChunkSize, minChunkSize, draws) ==
  IF i >= actualFragments - 1
  THEN [res |-> "ok", chunkSizes |-> Append(chunkSizes, remainingBytes)]
  ELSE
  LET remainingFragments == actualFragments - i
      span == maxChunkSize - minChunkSize
      capped == 3 * remainingBytes >= 10 * remainingFragments * span
      integral == capped \/ (3 * remainingBytes) % (10 * remainingFragments) = 0
      variance == IF capped THEN span
                  ELSE (3 * remainingBytes) \div (10 * remainingFragments)
      r == draws[(i % Len(draws)) + 1] * variance
      floored == (remainingBytes \div remainingFragments) + r
      clamped == MathMax(minChunkSize, MathMin(maxChunkSize, floored))
      chunkSize == MathMin(clamped,
                           remainingBytes - (remainingFragments - 1) * minChunkSize)
  IN IF ~integral THEN [res |-> "TypeError", chunkSizes |-> <<>>]
     ELSE ChunkLoop(i + 1, remainingBytes - chunkSize,
                    Append(chunkSizes, chunkSize), actualFragments,
                    maxChunkSize, minChunkSize, draws)

\* The loop `for (let i = 0; i < chunkSizes.length; i++)`, from fragment i on.
RECURSIVE CreateFragments(_, _, _, _)
CreateFragments(data, chunkSizes, i, offset) ==
  IF i >= Len(chunkSizes) THEN <<>>
  ELSE LET chunkData == SubSeq(data, offset + 1, offset + chunkSizes[i + 1])
       IN <<[index |-> i, total |-> Len(chunkSizes), data |-> chunkData,
             checksum |-> calculateChecksum(chunkData)]>>
          \o CreateFragments(data, chunkSizes, i + 1, offset + chunkSizes[i + 1])

fragmentData(data, maxChunkSize, minChunkSize, draws) ==
  IF Len(data) <= minChunkSize
  THEN [res |-> "ok",
        fragments |-> <<[index |-> 0, total |-> 1, data |-> data,
                         checksum |-> calculateChecksum(data)]>>]
  ELSE LET twiceAvg == minChunkSize + maxChunkSize
           estimatedFragments == (2 * Len(data) + twiceAvg - 1) \div twiceAvg
           actualFragments == MathMax(2, MathMin(estimatedFragments, 100))
           sizes == ChunkLoop(0, Len(data), <<>>, actualFragments,
                              maxChunkSize, minChunkSize, draws)
       IN IF sizes.res # "ok" THEN [res |-> sizes.res, fragments |-> <<>>]
          ELSE [res |-> "ok",
                fragments |-> CreateFragments(data, sizes.chunkSizes, 0, 0)]

\* header.writeUInt16BE(n, ..) / buffer.readUInt16BE(..)
UInt16BE(n) == <<(n \div 256) % 256, n % 256>>
ReadUInt16BE(b) == b[1] * 256 + b[2]

serializeFragment(fragment) ==
  UInt16BE(fragment.index) \o UInt16BE(fragment.total)
  \o FromHex(fragment.checksum) \o UInt32BE(Len(fragment.data)) \o fragment.data

\* Error kinds: "TooShort" is 'Invalid fragment: too short', "Truncated" is
\* 'Invalid fragment: data truncated', "Corrupt" is 'Fragment checksum
\* verification failed'.  A data length of 2^31 or more is represented by
\* 2^31-1: every buffer is shorter than either.
deserializeFragment(buffer) ==
  IF Len(buffer) < FRAGMENT_HEADER_SIZE THEN [res |-> "TooShort", fragment |-> <<>>]
  ELSE
  LET index == ReadUInt16BE(SubSeq(buffer, 1, 2))
      total == ReadUInt16BE(SubSeq(buffer, 3, 4))
      checksum == ToHex(SubSeq(buffer, 5, 12))
      dataLength == IF buffer[13] >= 128 THEN HugeLength
                    ELSE ReadUInt32BE(SubSeq(buffer, 13, 16))
      data == SubSeq(buffer, FRAGMENT_HEADER_SIZE + 1, FRAGMENT_HEADER_SIZE + dataLength)
  IN IF Len(buffer) - FRAGMENT_HEADER_SIZE < dataLength
     THEN [res |-> "Truncated", fragment |-> <<>>]
     ELSE IF ~verifyChecksum(data, checksum)
     THEN [res |-> "Corrupt", fragment |-> <<>>]
     ELSE [res |-> "ok",
           fragment |-> <<[index |-> index, total |-> total, data |-> data,
                           checksum |-> checksum]>>]

\* [...fragments].sort((a, b) => a.index - b.index): a stable sort.
RECURSIVE SortByIndex(_)
SortByIndex(frs) ==
  IF frs = <<>> THEN <<>>
  ELSE LET f == frs[Len(frs)]
           rest == SortByIndex(SubSeq(frs, 1, Len(frs) - 1))
           before == SelectSeq(rest, LAMBDA g : g.index <= f.index)
           after == SelectSeq(rest, LAMBDA g : g.index > f.index)
       IN before \o <<f>> \o after

\* Buffer.concat(sorted.map(f => f.data))
RECURSIVE ConcatData(_)
ConcatData(frs) ==
  IF frs = <<>> THEN <<>> ELSE Head(frs).data \o ConcatData(Tail(frs))

\* Error kinds: "NoFragments" is 'No fragments to reassemble', "Missing" is
\* 'Missing fragments: expected .., got ..' or 'Missing fragment at index ..'.
reassembleFragments_unsorted(frs) ==
  IF Len(frs) = 0 THEN [res |-> "NoFragments", data |-> <<>>]
  ELSE IF Len(frs) # frs[1].total THEN [res |-> "Missing", data |-> <<>>]
  ELSE [res |-> "ok", data |-> ConcatData(frs)]

reassembleFragments(frs) ==
  IF Len(frs) = 0 THEN [res |-> "NoFragments", data |-> <<>>]
  ELSE IF Len(frs) # frs[1].total THEN [res |-> "Missing", data |-> <<>>]
  ELSE LET sorted == SortByIndex(frs)
       IN IF \E i \in 1..Len(sorted) : sorted[i].index # i - 1
          THEN [res |-> "Missing", data |-> <<>>]
          ELSE [res |-> "ok", data |-> ConcatData(sorted)]

(***************************************************************************)
(* Inputs and operations of the fragmenter                                 *)
(***************************************************************************)
\* <<maxChunkSize, minChunkSize>>: the defaults are <<524288, 65536>>; the
\* model uses small sizes, <<16, 2>> keeping the defaults' ratio.
ChunkParams == {<<1, 1>>, <<2, 2>>, <<4, 3>>, <<16, 2>>}

\* Arguments of fragmentData: one payload of every length, every parameter pair.
FragInputs ==
  {<<[i \in 1..n |-> (37 * i) % 256], p[1], p[2]>> :
     n \in 0..MaxPayloadLen, p \in ChunkParams}

FragmentData(draws) ==
  /\ fragRes = "none"
  /\ \E r \in {fragmentData(fragIn[1], fragIn[2], fragIn[3], draws)} :
       /\ fragRes' = r.res
       /\ fragments' = r.fragments
  /\ UNCHANGED <<fragIn, deserIn, deserRes, deserOut, reasmIn, reasmRes,
                 reasmData, nonFragVars>>

\* serializeFragment then deserializeFragment on every fragment.
\* Those that fail to deserialize are missing from the result.
ThroughWire(frs) ==
  LET read == [i \in 1..Len(frs) |-> deserializeFragment(serializeFragment(frs[i]))]
      good == SelectSeq(read, LAMBDA d : d.res = "ok")
  IN [i \in 1..Len(good) |-> good[i].fragment[1]]

Reorder(frs, order) ==
  CASE order = "asIs" -> frs
    [] order = "reversed" -> [i \in 1..Len(frs) |-> frs[Len(frs) + 1 - i]]
    [] order = "rotated" -> [i \in 1..Len(frs) |-> frs[(i % Len(frs)) + 1]]

\* frs without its element number drop (all of frs when drop = 0).
Without(frs, drop) ==
  [i \in 1..(Len(frs) - (IF drop = 0 THEN 0 ELSE 1)) |->
     IF drop = 0 \/ i < drop THEN frs[i] ELSE frs[i + 1]]

DoReassemble(frs) ==
  \E r \in {reassembleFragments(frs)} :
     /\ reasmIn' = frs
     /\ reasmRes' = r.res
     /\ reasmData' = r.data

\* reassembleFragments on the fragments of fragmentData, possibly passed
\* through the wire format, reordered, or with one of them removed.
Reassemble(order, viaWire, drop) ==
  /\ fragRes = "ok"
  /\ reasmRes = "none"
  /\ deserRes = "none"
  /\ drop \in 0..Len(fragments)
  /\ DoReassemble(Reorder(Without(IF viaWire THEN ThroughWire(fragments)
                                  ELSE fragments, drop), order))
  /\ UNCHANGED <<fragIn, fragRes, fragments, deserIn, deserRes, deserOut,
                 nonFragVars>>

\* buffer[pos] ^= mask, pos counted from 1
FlipByte(buffer, pos, mask) ==
  [buffer EXCEPT ![pos] = IF mask = 255 THEN 255 - @
                          ELSE IF @ % 2 = 0 THEN @ + 1 ELSE @ - 1]

\* deserializeFragment on serializeFragment(fragments[j]) with the byte at
\* pos flipped (pos = 0: untouched).  deserIn records <<buffer, j, pos>>.
Deserialize(j, pos, mask) ==
  /\ fragRes = "ok"
  /\ deserRes = "none"
  /\ reasmRes = "none"
  /\ j \in 1..Len(fragments)
  /\ LET wire == serializeFragment(fragments[j])
     IN /\ pos \in 0..Len(wire)
        /\ \E r \in {deserializeFragment(IF pos = 0 THEN wire
                                        ELSE FlipByte(wire, pos, mask))} :
             /\ deserIn' = <<IF pos = 0 THEN wire ELSE FlipByte(wire, pos, mask),
                             j, pos>>
             /\ deserRes' = r.res
             /\ deserOut' = r.fragment
  /\ UNCHANGED <<fragIn, fragRes, fragments, reasmIn, reasmRes, reasmData,
                 nonFragVars>>

InitFragment ==
  /\ KeysAtRest
  /\ StegoIdle
  /\ ShellIdle
  /\ ApiIdle
  /\ WebIdle
  /\ KdfIdle
  /\ SyncIdle
  /\ fragIn \in FragInputs
  /\ fragRes = "none"
  /\ fragments = <<>>
  /\ deserIn = <<>>
  /\ deserRes = "none"
  /\ deserOut = <<>>
  /\ reasmIn = <<>>
  /\ reasmRes = "none"
  /\ reasmData = <<>>

NextFragment ==
  \/ \E draws \in [1..NumDraws -> {-1, 0, 1}] : FragmentData(draws)
  \/ \E order \in {"asIs", "reversed", "rotated"}, viaWire \in BOOLEAN, drop \in 0..MaxPayloadLen :
       Reassemble(order, viaWire, drop)
  \/ \E j \in 1..MaxPayloadLen, pos \in 0..(FRAGMENT_HEADER_SIZE + MaxPayloadLen),
        mask \in {1, 255} :
       Deserialize(j, pos, mask)

SpecFragment == InitFragment /\ [][NextFragment]_vars

\* Fragment lists any caller may hand to reassembleFragments.
AnyFragmentLists ==
  LET AnyFragments ==
        {[index |-> i, total |-> t, data |-> <<16 * i + t>>,
          checksum |-> calculateChecksum(<<16 * i + t>>)] :
           i \in 0..(MaxListLen - 1), t \in 1..MaxListLen}
  IN UNION {[1..n -> AnyFragments] : n \in 0..MaxListLen}

ReassembleAny(frs) ==
  /\ reasmRes = "none"
  /\ DoReassemble(frs)
  /\ UNCHANGED <<fragIn, fragRes, fragments, deserIn, deserRes, deserOut,
                 nonFragVars>>

InitReassemble ==
  /\ KeysAtRest
  /\ StegoIdle
  /\ FragIdle
  /\ ShellIdle
  /\ ApiIdle
  /\ WebIdle
  /\ KdfIdle
  /\ SyncIdle

NextReassemble ==
  /\ reasmRes = "none"
  /\ \E frs \in AnyFragmentLists : ReassembleAny(frs)

SpecReassemble == InitReassemble /\ [][NextReassemble]_vars

(***************************************************************************)
(* cli/shell.ts (syncCommand) and steganography/carrier-manager.ts         *)
(* (uploadEntry, downloadEntry).  A step of syncCommand is one iteration   *)
(* of a loop; its outcome says which awaited call rejected.                *)
(***************************************************************************)
\* Entries of the index that start out synced hold one Drive file each.
PreSynced(e) == [id |-> 0 - e, entry |-> e, index |-> 0, total |-> 1]

\* path.join(carriers, generateFilename('png')) / path.join(carriers, `temp_${fileId}.png`)
OutputPath(n) == <<"out", n>>
TempPath(fileId) == <<"temp", fileId>>

\* The entries with `indexEntry.fragments.length === 0`, in key order.
PendingEntries ==
  SelectSeq([e \in 1..NumEntries |-> e], LAMBDA e : Len(entryFragments[e]) = 0)

\* syncCommand up to the loop over pendingEntries; it returns early when
\* nothing is pending or no carrier image was found (ncarriers = 0 also
\* stands for a sync the user cancelled).
SyncStart(ncarriers) ==
  /\ lastCall = "none"
  /\ lastCall' = "syncCommand"
  /\ created' = {}
  /\ sync' = [pc |-> IF PendingEntries = <<>> \/ ncarriers = 0 THEN "done" ELSE "entry",
              pendingEntries |-> PendingEntries, carriers |-> ncarriers,
              carrierIndex |-> 0, entryId |-> 0, fragments |-> 0, uploaded |-> 0,
              driveFileIds |-> <<>>]
  /\ UNCHANGED <<entryFragments, carriersDir, driveFiles, fileSeq, nonSyncVars>>

\* Next entry of the loop: fragmentData returns nfragments fragments
\* (0: getEntry finds nothing, or encryptObject or fragmentData throws,
\* which the entry's catch block reports).
SyncEntry(nfragments) ==
  /\ sync.pc = "entry"
  /\ sync.pendingEntries # <<>>
  /\ sync' = [sync EXCEPT !.pc = IF nfragments = 0 THEN "entry" ELSE "fragment",
                          !.pendingEntries = Tail(@),
                          !.entryId = Head(sync.pendingEntries),
                          !.fragments = nfragments,
                          !.uploaded = 0,
                          !.driveFileIds = <<>>]
  /\ UNCHANGED <<entryFragments, carriersDir, driveFiles, fileSeq, created,
                 lastCall, nonSyncVars>>

\* One iteration of `for (const fragment of fragments)`.
\* outcome: "embedFails" (embedInPNG rejects, nothing written), "uploadFails"
\* (uploadFile rejects), "unlinkFails" (fs.unlink rejects, ignored), "ok".
SyncFragment(outcome) ==
  /\ sync.pc = "fragment"
  /\ sync.uploaded < sync.fragments
  /\ IF sync.carrierIndex >= sync.carriers
     THEN /\ sync' = [sync EXCEPT !.pc = "entry"]
          /\ UNCHANGED <<carriersDir, driveFiles, fileSeq, created>>
     ELSE LET outputPath == OutputPath(fileSeq + 1)
              written == outcome # "embedFails"
              sent == outcome \in {"ok", "unlinkFails"}
          IN /\ fileSeq' = fileSeq + 1
             /\ created' = IF written THEN created \cup {outputPath} ELSE created
             /\ carriersDir' = IF written /\ outcome # "ok"
                               THEN carriersDir \cup {outputPath} ELSE carriersDir
             /\ driveFiles' = IF sent
                              THEN driveFiles \cup
                                   {[id |-> fileSeq + 1, entry |-> sync.entryId,
                                     index |-> sync.uploaded,
                                     total |-> sync.fragments]}
                              ELSE driveFiles
             /\ sync' = IF sent
                        THEN [sync EXCEPT !.carrierIndex = @ + 1,
                                          !.uploaded = @ + 1,
                                          !.driveFileIds = Append(@, fileSeq + 1)]
                        ELSE [sync EXCEPT !.carrierIndex = @ + 1, !.pc = "entry"]
  /\ UNCHANGED <<entryFragments, lastCall, nonSyncVars>>

SyncEntryDone_early ==
  /\ sync.pc = "fragment"
  /\ sync.uploaded >= 1
  /\ entryFragments' = [entryFragments EXCEPT ![sync.entryId] = sync.driveFileIds]
  /\ sync' = [sync EXCEPT !.pc = "entry"]
  /\ UNCHANGED <<carriersDir, driveFiles, fileSeq, created, lastCall, nonSyncVars>>

\* `vaultIndex.entries[entryId]!.fragments = driveFileIds` after the loop.
SyncEntryDone ==
  /\ sync.pc = "fragment"
  /\ sync.uploaded = sync.fragments
  /\ entryFragments' = [entryFragments EXCEPT ![sync.entryId] = sync.driveFileIds]
  /\ sync' = [sync EXCEPT !.pc = "entry"]
  /\ UNCHANGED <<carriersDir, driveFiles, fileSeq, created, lastCall, nonSyncVars>>

\* After the last entry: updateVaultIndex({ lastSync }) and return.
SyncFinish ==
  /\ sync.pc = "entry"
  /\ sync.pendingEntries = <<>>
  /\ sync' = [sync EXCEPT !.pc = "done"]
  /\ UNCHANGED <<entryFragments, carriersDir, driveFiles, fileSeq, created,
                 lastCall, nonSyncVars>>

\* uploadEntry(entryId, carrierPaths) as a whole: nfragments fragments,
\* ncarriers carrier paths; failAt = 0: no call rejects, else the call named
\* by kind ("embed", "upload") rejects for fragment number failAt.
UploadEntry(e, nfragments, ncarriers, failAt, kind) ==
  /\ lastCall = "none"
  /\ lastCall' = "uploadEntry"
  /\ failAt <= nfragments
  /\ LET runs == nfragments <= ncarriers
         sent == IF ~runs THEN 0 ELSE IF failAt = 0 THEN nfragments ELSE failAt - 1
         named == IF ~runs THEN 0 ELSE IF failAt = 0 THEN nfragments ELSE failAt
         left == IF runs /\ failAt > 0 /\ kind = "upload"
                 THEN {OutputPath(fileSeq + failAt)} ELSE {}
     IN /\ fileSeq' = fileSeq + named
        /\ driveFiles' = driveFiles \cup
                         {[id |-> fileSeq + i, entry |-> e, index |-> i - 1,
                           total |-> nfragments] : i \in 1..sent}
        /\ created' = {OutputPath(fileSeq + i) : i \in 1..sent} \cup left
        /\ carriersDir' = carriersDir \cup left
  /\ UNCHANGED <<entryFragments, sync, nonSyncVars>>

\* downloadEntry(entryId, driveFileIds) as a whole; failAt and kind
\* ("download", "extract", "deserialize") as above.  A rejected downloadFile
\* is taken to leave no file behind.
DownloadEntry(e, failAt, kind) ==
  /\ lastCall = "none" \/ (lastCall = "syncCommand" /\ sync.pc = "done")
  /\ entryFragments[e] # <<>>
  /\ failAt <= Len(entryFragments[e])
  /\ lastCall' = "downloadEntry"
  /\ LET ids == entryFragments[e]
         read == IF failAt = 0 THEN Len(ids) ELSE failAt - 1
         left == IF failAt > 0 /\ kind # "download"
                 THEN {TempPath(ids[failAt])} ELSE {}
     IN /\ created' = {TempPath(ids[i]) : i \in 1..read} \cup left
        /\ carriersDir' = carriersDir \cup left
  /\ UNCHANGED <<entryFragments, driveFiles, fileSeq, sync, nonSyncVars>>

InitSync ==
  /\ KeysAtRest
  /\ StegoIdle
  /\ FragIdle
  /\ ShellIdle
  /\ ApiIdle
  /\ WebIdle
  /\ KdfIdle
  /\ \E synced \in SUBSET (1..NumEntries) :
       /\ entryFragments = [e \in 1..NumEntries |->
                              IF e \in synced THEN <<PreSynced(e).id>> ELSE <<>>]
       /\ driveFiles = {PreSynced(e) : e \in synced}
  /\ carriersDir = {}
  /\ fileSeq = 0
  /\ sync = [pc |-> "idle"]
  /\ created = {}
  /\ lastCall = "none"

NextSync ==
  \/ \E ncarriers \in 0..MaxCarriers : SyncStart(ncarriers)
  \/ \E nfragments \in 0..MaxFragsPerEntry : SyncEntry(nfragments)
  \/ \E outcome \in {"embedFails", "uploadFails", "unlinkFails", "ok"} :
       SyncFragment(outcome)
  \/ SyncEntryDone
  \/ SyncFinish
  \/ \E e \in 1..NumEntries, nfragments \in 1..MaxFragsPerEntry,
        ncarriers \in 0..MaxCarriers, failAt \in 0..MaxFragsPerEntry,
        kind \in {"embed", "upload"} :
       UploadEntry(e, nfragments, ncarriers, failAt, kind)
  \/ \E e \in 1..NumEntries, failAt \in 0..MaxFragsPerEntry,
        kind \in {"download", "extract", "deserialize"} :
       DownloadEntry(e, failAt, kind)

SpecSync == InitSync /\ [][NextSync]_vars

(***************************************************************************)
(* crypto/kdf.ts: deriveKey with explicit parameters                       *)
(***************************************************************************)
DEFAULT_KDF_PARAMS ==
  [timeCost |-> 3, memoryCost |-> 65536, parallelism |-> 4, hashLength |-> 32]

\* The parameter sets a caller can pass (memoryCost in KiB, a power of two).
KdfParamSets ==
  [timeCost : 1..MaxTimeCost,
   memoryCost : {2 ^ k : k \in 10..MaxMemoryLog2},
   parallelism : 1..MaxParallelism,
   hashLength : {16, 32, 64}]

\* The argon2 package's own lower limits; every set of KdfParamSets with
\* timeCost >= 2 is inside them.
WithinArgon2Limits(params) ==
  /\ params.timeCost >= 2
  /\ params.memoryCost >= 1024
  /\ params.parallelism >= 1
  /\ params.hashLength >= 4

\* argon2.hash(password, { type: argon2id, salt, ...params, raw: true }):
\* deriveKey(password, salt) is its value on the default parameters, and
\* other parameters give other hashes.
argon2_hash(password, salt, params) == <<deriveKey(password, salt), params>>

\* deriveKey(password, salt, params).  The parameters go to argon2.hash
\* unexamined; libraryRejects: argon2.hash rejects, which it may do only
\* outside its own limits (whether it does depends on the package version).
DeriveKey(password, salt, params, libraryRejects) ==
  /\ kdfRes = "none"
  /\ libraryRejects => ~WithinArgon2Limits(params)
  /\ kdfParams' = params
  /\ kdfRes' = IF libraryRejects THEN "rejected" ELSE "key"
  /\ kdfKey' = IF libraryRejects THEN <<>>
               ELSE <<argon2_hash(password, salt, params)>>
  /\ UNCHANGED nonKdfVars

InitKdf ==
  /\ KeysAtRest
  /\ StegoIdle
  /\ FragIdle
  /\ ShellIdle
  /\ ApiIdle
  /\ WebIdle
  /\ SyncIdle
  /\ KdfIdle

NextKdf ==
  \E password \in Passwords, salt \in Salts, params \in KdfParamSets,
     libraryRejects \in BOOLEAN :
    DeriveKey(password, salt, params, libraryRejects)

SpecKdf == InitKdf /\ [][NextKdf]_vars

(***************************************************************************)
(* webui/server.ts: requestHandler, with the /api/init route               *)
(***************************************************************************)
HttpError(statusCode, message) ==
  [kind |-> "HttpError", statusCode |-> statusCode, message |-> message]

\* Nothing thrown.
NoError == [kind |-> "none", statusCode |-> 0, message |-> ""]

\* Messages of errors raised inside the vault.
InternalMessages ==
  {"DATABASE_PASSWORD=secret_leak", "EACCES: /home/user/.slasshy/vault.enc"}

\* How `await initVault(password)` settles: it resolves, rejects with an
\* Error, or rejects with a value that is not an Error.
InitVaultOutcomes ==
  {NoError}
  \cup [kind : {"Error", "value"}, statusCode : {0}, message : InternalMessages]

Requests ==
  [loopback : BOOLEAN,
   pathname : {"/", "/favicon.ico", "/api/init", "/api/unknown", "/unknown"},
   method : {"GET", "POST"},
   uiHeader : BOOLEAN,
   password : {"missing", "given"},
   vaultExists : BOOLEAN,
   initVault : InitVaultOutcomes]

sendJson(statusCode, json) == [status |-> statusCode, body |-> json]

isWriteMethod(method) == method \in {"POST", "PUT", "PATCH", "DELETE"}

\* What a block of the handler did: threw, or wrote a response.
Threw(error) == [thrown |-> error, res |-> sendJson(0, <<>>)]
Sent(res) == [thrown |-> NoError, res |-> res]

handleApiRequest(req) ==
  IF isWriteMethod(req.method) /\ ~req.uiHeader
  THEN Threw(HttpError(403, "Forbidden request."))
  ELSE IF req.pathname = "/api/init"
  THEN IF req.method # "POST"
       THEN Sent(sendJson(405, [error |-> "Method not allowed."]))
       ELSE IF req.password = "missing"
       THEN Threw(HttpError(400, "password is required."))
       ELSE IF req.vaultExists
       THEN Threw(HttpError(409, "Vault already exists."))
       ELSE IF req.initVault.kind # "none"
       THEN Threw(req.initVault)
       ELSE Sent(sendJson(201, [initialized |-> TRUE, unlocked |-> TRUE]))
  ELSE Sent(sendJson(404, [error |-> "Not found."]))

\* The try block of requestHandler.
TryBlock(req) ==
  IF ~req.loopback
  THEN Threw(HttpError(403, "Web UI is only accessible via loopback (localhost / 127.0.0.1 / ::1)."))
  ELSE IF req.pathname = "/" /\ req.method = "GET"
  THEN Sent([status |-> 200, body |-> [html |-> TRUE]])
  ELSE IF req.pathname = "/favicon.ico"
  THEN Sent([status |-> 204, body |-> <<>>])
  ELSE IF req.pathname \in {"/api/init", "/api/unknown"}
  THEN handleApiRequest(req)
  ELSE Sent(sendJson(404, [error |-> "Not found."]))

\* The catch block of requestHandler.
CatchBlock(error) ==
  IF error.kind = "HttpError"
  THEN sendJson(error.statusCode, [error |-> error.message])
  ELSE IF error.kind = "Error"
  THEN sendJson(500, [error |-> error.message])
  ELSE sendJson(500, [error |-> "Unexpected server error."])

requestHandler(req) ==
  LET t == TryBlock(req)
  IN [thrown |-> t.thrown,
      res |-> IF t.thrown.kind = "none" THEN t.res ELSE CatchBlock(t.thrown)]

RequestHandler(req) ==
  /\ webRes.status = 0
  /\ \E r \in {requestHandler(req)} :
       /\ webReq' = req
       /\ webThrown' = r.thrown
       /\ webRes' = r.res
  /\ UNCHANGED nonWebVars

InitWeb ==
  /\ KeysAtRest
  /\ StegoIdle
  /\ FragIdle
  /\ ShellIdle
  /\ ApiIdle
  /\ SyncIdle
  /\ KdfIdle
  /\ WebIdle

NextWeb == \E req \in Requests : RequestHandler(req)

SpecWeb == InitWeb /\ [][NextWeb]_vars

(***************************************************************************)
(* webui/server.ts: the Host header check of requestHandler                *)
(* A string is the sequence of its characters.                             *)
(***************************************************************************)
MaxHostPieces == 3

\* Pieces that Host headers are put together from.
HostPieces ==
  { <<"l", "o", "c", "a", "l", "h", "o", "s", "t">>,
    <<"L", "o", "c", "a", "l", "H", "o", "s", "t">>,
    <<"1", "2", "7">>,
    <<".", "0", ".", "0", ".", "1">>,
    <<".", "0", ".", "0", ".", "2", "5", "6">>,
    <<".", "e", "v", "i", "l", ".", "c", "o", "m">>,
    <<"[">>,
    <<":", ":", "1">>,
    <<"]">>,
    <<":", "8", "0">>,
    <<" ">> }

RECURSIVE HostHeadersOf(_)
HostHeadersOf(n) ==
  IF n = 0 THEN {<<>>}
  ELSE LET shorter == HostHeadersOf(n - 1)
       IN shorter \cup {h \o piece : h \in shorter, piece \in HostPieces}

\* The values of the Host header; the empty string also stands for a request
\* without the header, both being falsy.
HostHeaders == HostHeadersOf(MaxHostPieces)

\* The null of parseHostName.
Null == <<"null">>

UpperCase ==
  <<"A", "B", "C", "D", "E", "F", "G", "H", "I", "J", "K", "L", "M",
    "N", "O", "P", "Q", "R", "S", "T", "U", "V", "W", "X", "Y", "Z">>

LowerCase ==
  <<"a", "b", "c", "d", "e", "f", "g", "h", "i", "j", "k", "l", "m",
    "n", "o", "p", "q", "r", "s", "t", "u", "v", "w", "x", "y", "z">>

\* String.prototype.toLowerCase
toLowerCase(str) ==
  [i \in 1..Len(str) |->
     IF \E k \in 1..26 : UpperCase[k] = str[i]
     THEN LowerCase[CHOOSE k \in 1..26 : UpperCase[k] = str[i]]
     ELSE str[i]]

\* String.prototype.trim
trim(str) ==
  LET kept == {i \in 1..Len(str) : str[i] # " "}
  IN IF kept = {} THEN <<>>
     ELSE SubSeq(str, CHOOSE i \in kept : \A j \in kept : i <= j,
                      CHOOSE i \in kept : \A j \in kept : j <= i)

\* String.prototype.indexOf for one character, counted from 0; -1 if absent.
indexOf(str, ch) ==
  LET at == {i \in 1..Len(str) : str[i] = ch}
  IN IF at = {} THEN -1 ELSE (CHOOSE i \in at : \A j \in at : i <= j) - 1

\* String.prototype.slice(from, to), 0 <= from <= to <= length.
slice(str, from, to) == SubSeq(str, from + 1, to)

\* String.prototype.startsWith
startsWith(str, prefix) ==
  /\ Len(prefix) <= Len(str)
  /\ SubSeq(str, 1, Len(prefix)) = prefix

parseHostName(hostHeader) ==
  IF hostHeader = <<>> THEN Null
  ELSE LET host == toLowerCase(trim(hostHeader))
       IN IF host = <<>> THEN Null
          ELSE IF startsWith(host, <<"[">>)
          THEN IF indexOf(host, "]") = -1 THEN Null
               ELSE slice(host, 1, indexOf(host, "]"))
          ELSE IF indexOf(host, ":") = -1 THEN host
          ELSE slice(host, 0, indexOf(host, ":"))

isLoopbackHostName(hostName) ==
  IF hostName = Null \/ hostName = <<>> THEN FALSE
  ELSE IF \/ hostName = <<"l", "o", "c", "a", "l", "h", "o", "s", "t">>
          \/ hostName = <<":", ":", "1">>
          \/ hostName = <<"1", "2", "7", ".", "0", ".", "0", ".", "1">>
  THEN TRUE
  ELSE IF startsWith(hostName, <<"1", "2", "7", ".">>) THEN TRUE
  ELSE FALSE

\* What requireLocalhostRequest throws.
requireLocalhostRequest(hostHeader) ==
  IF ~isLoopbackHostName(parseHostName(hostHeader))
  THEN HttpError(403, "Web UI is only accessible via loopback (localhost / 127.0.0.1 / ::1).")
  ELSE NoError

\* requestHandler for a request with the given Host header.
HostRequest(hostHeader, pathname, method) ==
  RequestHandler([host |-> hostHeader,
                  loopback |-> requireLocalhostRequest(hostHeader) = NoError,
                  pathname |-> pathname,
                  method |-> method,
                  uiHeader |-> TRUE,
                  password |-> "missing",
                  vaultExists |-> TRUE,
                  initVault |-> NoError])

NextHost ==
  /\ webRes.status = 0
  /\ \E hostHeader \in HostHeaders, pathname \in {"/", "/api/init"},
        method \in {"GET", "POST"} :
       HostRequest(hostHeader, pathname, method)

SpecHost == InitWeb /\ [][NextHost]_vars

(***************************************************************************)
(* webui/server.ts: the API routes, the vault lock and the upload sessions *)
(* A request is its route, method and guard inputs; a route that awaits    *)
(* the request body or the vault before it touches shared state again      *)
(* is two steps, so that other requests can run in between.                *)
(***************************************************************************)
MIN_UPLOAD_CHUNK_BYTES == 256 * 1024
MAX_UPLOAD_CHUNK_BYTES == 4 * 1024 * 1024

\* The sizes of files and of request bodies that are tried.
UploadSizes == {0, 1, MIN_UPLOAD_CHUNK_BYTES, MIN_UPLOAD_CHUNK_BYTES + 1}

Routes ==
  {"entries", "entry", "favorite", "download", "uploadStart", "uploadChunk",
   "uploadComplete", "uploadAbort", "lock", "unlock"}

\* Route, method, whether the Host header is a loopback name, and whether
\* the header X-BlankDrive-UI: 1 is present.
Heads ==
  [route : {"entry"}, method : {"GET", "POST", "PUT", "DELETE"},
   loopback : BOOLEAN, uiHeader : BOOLEAN]
  \cup [route : Routes, method : {"GET", "POST"},
        loopback : BOOLEAN, uiHeader : BOOLEAN]

RequestGuards_hostOnly(h) == IF ~h.loopback THEN 403 ELSE 0

\* requireLocalhostRequest, then requireUiWriteGuard for a write method:
\* the status they reject with, or 0.
RequestGuards(h) ==
  IF ~h.loopback THEN 403
  ELSE IF isWriteMethod(h.method) /\ ~h.uiHeader THEN 403
  ELSE 0

ensureUnlocked_off == IF vaultUnlocked \/ TRUE THEN 0 ELSE 423

\* ensureUnlocked: the status it rejects with, or 0.
ensureUnlocked == IF vaultUnlocked THEN 0 ELSE 423

Reply(status, ops) == [status |-> status, ops |-> ops]

\* The entry and download routes.  idOk: the id in the path decodes;
\* found: the index has the entry (of the type the route needs);
\* bodyOk: the JSON body passes the readString checks.
EntryRoute(h, idOk, found, bodyOk) ==
  IF h.route = "entries"
  THEN IF h.method = "GET"
       THEN IF ensureUnlocked # 0 THEN Reply(423, {})
            ELSE Reply(200, {"listEntries"})
       ELSE IF h.method = "POST"
       THEN IF ensureUnlocked # 0 THEN Reply(423, {})
            ELSE IF ~bodyOk THEN Reply(400, {})
            ELSE Reply(201, {"addEntry"})
       ELSE Reply(404, {})
  ELSE IF ~idOk THEN Reply(400, {})
  ELSE IF h.route = "download"
  THEN IF h.method # "GET" THEN Reply(405, {})
       ELSE IF ensureUnlocked # 0 THEN Reply(423, {})
       ELSE IF ~found THEN Reply(404, {"getVaultIndex"})
       ELSE Reply(200, {"getVaultIndex", "getFileEntry", "getFileData"})
  ELSE IF ensureUnlocked # 0 THEN Reply(423, {})
  ELSE IF ~found THEN Reply(404, {"getVaultIndex"})
  ELSE IF h.route = "favorite"
  THEN IF h.method # "POST" THEN Reply(405, {"getVaultIndex"})
       ELSE Reply(200, {"getVaultIndex", "toggleFavorite"})
  ELSE IF h.method = "GET" THEN Reply(200, {"getVaultIndex", "getEntry"})
  ELSE IF h.method = "DELETE" THEN Reply(200, {"getVaultIndex", "deleteEntry"})
  ELSE IF h.method = "PUT"
  THEN IF ~bodyOk THEN Reply(400, {"getVaultIndex"})
       ELSE Reply(200, {"getVaultIndex", "updateEntry"})
  ELSE Reply(405, {"getVaultIndex"})

\* The response written for request h, received with the vault locked or
\* not, and what handling it did.
Answered(h, idOk, locked, status, ops) ==
  /\ apiLast' = [route |-> h.route, method |-> h.method, loopback |-> h.loopback,
                 uiHeader |-> h.uiHeader, idOk |-> idOk, locked |-> locked,
                 status |-> status, vaultOps |-> ops,
                 sessionsChanged |-> (uploadSessions' # uploadSessions
                                      \/ uploadFiles' # uploadFiles)]

\* A further request arrives.
Received ==
  /\ apiCount < MaxApiRequests
  /\ apiCount' = apiCount + 1

WithoutSessions(f, ids) == [u \in (DOMAIN f) \ ids |-> f[u]]

\* cleanupUploadSession for every id of ids.
CleanedUp(ids) ==
  /\ uploadSessions' = WithoutSessions(uploadSessions, ids)
  /\ uploadFiles' = WithoutSessions(uploadFiles, ids)

ApiEntry(h) ==
  /\ Received
  /\ h.route \in {"entries", "entry", "favorite", "download"}
  /\ UNCHANGED <<vaultUnlocked, uploadSessions, uploadFiles, apiInflight,
                 addFileCalls, nextUploadId, nonApiVars>>
  /\ IF RequestGuards(h) # 0
     THEN Answered(h, TRUE, ~vaultUnlocked, RequestGuards(h), {})
     ELSE \E idOk, found, bodyOk \in BOOLEAN :
            \E r \in {EntryRoute(h, idOk, found, bodyOk)} :
              Answered(h, idOk, ~vaultUnlocked, r.status, r.ops)

\* /api/lock
ApiLock(h) ==
  /\ Received
  /\ h.route = "lock"
  /\ UNCHANGED <<apiInflight, addFileCalls, nextUploadId, nonApiVars>>
  /\ IF RequestGuards(h) # 0 \/ h.method # "POST"
     THEN /\ UNCHANGED <<vaultUnlocked, uploadSessions, uploadFiles>>
          /\ Answered(h, TRUE, ~vaultUnlocked,
                      IF RequestGuards(h) # 0 THEN RequestGuards(h) ELSE 405, {})
     ELSE /\ vaultUnlocked' = FALSE
          /\ CleanedUp(DOMAIN uploadSessions)
          /\ Answered(h, TRUE, ~vaultUnlocked, 200,
                      IF vaultUnlocked THEN {"lock"} ELSE {})

\* /api/unlock; passwordOk: unlock(password) resolves.
ApiUnlock(h) ==
  /\ Received
  /\ h.route = "unlock"
  /\ UNCHANGED <<uploadSessions, uploadFiles, apiInflight, addFileCalls,
                 nextUploadId, nonApiVars>>
  /\ IF RequestGuards(h) # 0 \/ h.method # "POST"
     THEN /\ UNCHANGED vaultUnlocked
          /\ Answered(h, TRUE, ~vaultUnlocked,
                      IF RequestGuards(h) # 0 THEN RequestGuards(h) ELSE 405, {})
     ELSE \E passwordOk \in BOOLEAN :
            /\ vaultUnlocked' = (vaultUnlocked \/ passwordOk)
            /\ Answered(h, TRUE, ~vaultUnlocked,
                        IF passwordOk THEN 200 ELSE 500, {"unlock"})

\* The checks every upload route starts with: the guards, the method, then
\* ensureUnlocked.  The status they reject with, or 0.
UploadGuards(h) ==
  IF RequestGuards(h) # 0 THEN RequestGuards(h)
  ELSE IF h.method # "POST" THEN 405
  ELSE ensureUnlocked

\* /api/files/upload/start, past its guards.  requestedChunkSize = 0: the
\* body has none.  expired: the sessions older than
\* MAX_UPLOAD_SESSION_AGE_MS.
StartSession(h, totalSize, requestedChunkSize, expired) ==
       IF requestedChunkSize # 0
          /\ (requestedChunkSize < MIN_UPLOAD_CHUNK_BYTES
              \/ requestedChunkSize > MAX_UPLOAD_CHUNK_BYTES)
  THEN /\ CleanedUp(expired)
       /\ UNCHANGED nextUploadId
       /\ Answered(h, TRUE, FALSE, 400, {})
  ELSE LET chunkSize == IF requestedChunkSize # 0 THEN requestedChunkSize
                        ELSE MAX_UPLOAD_CHUNK_BYTES
           totalChunks == IF totalSize = 0 THEN 0
                          ELSE (totalSize + chunkSize - 1) \div chunkSize
           uploadId == nextUploadId + 1
           live == (DOMAIN uploadSessions) \ expired
       IN /\ nextUploadId < MaxUploads
          /\ nextUploadId' = uploadId
          /\ uploadSessions' =
               [u \in live \cup {uploadId} |->
                  IF u = uploadId
                  THEN [totalSize |-> totalSize, chunkSize |-> chunkSize,
                        totalChunks |-> totalChunks, receivedChunks |-> 0,
                        receivedBytes |-> 0, nextChunkIndex |-> 0]
                  ELSE uploadSessions[u]]
          /\ uploadFiles' = [u \in live \cup {uploadId} |->
                               IF u = uploadId THEN <<>> ELSE uploadFiles[u]]
          /\ Answered(h, TRUE, FALSE, 201, {})

UploadStart(h) ==
  /\ Received
  /\ h.route = "uploadStart"
  /\ UNCHANGED <<vaultUnlocked, apiInflight, addFileCalls, nonApiVars>>
  /\ IF UploadGuards(h) # 0
     THEN /\ UNCHANGED <<uploadSessions, uploadFiles, nextUploadId>>
          /\ Answered(h, TRUE, ~vaultUnlocked, UploadGuards(h), {})
     ELSE \E totalSize \in UploadSizes,
             requestedChunkSize \in {0, MIN_UPLOAD_CHUNK_BYTES - 1,
                                     MIN_UPLOAD_CHUNK_BYTES},
             expired \in SUBSET DOMAIN uploadSessions :
            StartSession(h, totalSize, requestedChunkSize, expired)

\* /api/files/upload/chunk up to `await readBinaryBody`.  uploadId = 0 and
\* index = -1 stand for a missing or malformed query parameter.
UploadChunkBegin(h) ==
  /\ Received
  /\ h.route = "uploadChunk"
  /\ UNCHANGED <<vaultUnlocked, addFileCalls, nextUploadId, nonApiVars>>
  /\ IF UploadGuards(h) # 0
     THEN /\ UNCHANGED <<uploadSessions, uploadFiles, apiInflight>>
          /\ Answered(h, TRUE, ~vaultUnlocked, UploadGuards(h), {})
     ELSE \E uploadId \in 0..MaxUploads, index \in -1..(MaxApiRequests - 1),
             expired \in SUBSET DOMAIN uploadSessions :
          /\ CleanedUp(expired)
          /\ LET live == (DOMAIN uploadSessions) \ expired
                 session == uploadSessions[uploadId]
                 status == IF uploadId = 0 \/ index < 0 THEN 400
                           ELSE IF uploadId \notin live THEN 404
                           ELSE IF session.totalChunks = 0 THEN 400
                           ELSE IF index # session.nextChunkIndex THEN 409
                           ELSE 0
             IN IF status # 0
                THEN /\ UNCHANGED apiInflight
                     /\ Answered(h, TRUE, FALSE, status, {})
                ELSE /\ apiInflight' = apiInflight \cup
                          {[kind |-> "chunk", n |-> apiCount, head |-> h,
                            uploadId |-> uploadId, index |-> index,
                            chunkSize |-> session.chunkSize,
                            expectedBytes |->
                              IF index = session.totalChunks - 1
                              THEN session.totalSize
                                   - session.chunkSize * (session.totalChunks - 1)
                              ELSE session.chunkSize]}
                     /\ UNCHANGED apiLast

\* The rest of the chunk route, once the body of len bytes has been read.
\* A session cleaned up in the meantime has lost its directory, so the
\* append fails.
UploadChunkBody(r, len) ==
  /\ r.kind = "chunk"
  /\ apiInflight' = apiInflight \ {r}
  /\ UNCHANGED <<vaultUnlocked, addFileCalls, nextUploadId, apiCount, nonApiVars>>
  /\ LET status == IF len > r.chunkSize + 1 THEN 413
                   ELSE IF len # r.expectedBytes THEN 400
                   ELSE IF r.uploadId \notin DOMAIN uploadSessions THEN 500
                   ELSE 200
     IN /\ IF status = 200
           THEN /\ uploadFiles' =
                     [uploadFiles EXCEPT ![r.uploadId] = Append(@, <<r.index, len>>)]
                /\ uploadSessions' =
                     [uploadSessions EXCEPT
                        ![r.uploadId].receivedChunks = @ + 1,
                        ![r.uploadId].receivedBytes = @ + len,
                        ![r.uploadId].nextChunkIndex = @ + 1]
           ELSE UNCHANGED <<uploadSessions, uploadFiles>>
        /\ Answered(r.head, TRUE, FALSE, status, {})

\* /api/files/upload/complete up to `await addFileEntry(...)`.
UploadCompleteBegin(h) ==
  /\ Received
  /\ h.route = "uploadComplete"
  /\ UNCHANGED <<vaultUnlocked, nextUploadId, nonApiVars>>
  /\ IF UploadGuards(h) # 0
     THEN /\ UNCHANGED <<uploadSessions, uploadFiles, apiInflight, addFileCalls>>
          /\ Answered(h, TRUE, ~vaultUnlocked, UploadGuards(h), {})
     ELSE \E uploadId \in 0..MaxUploads, expired \in SUBSET DOMAIN uploadSessions :
          /\ CleanedUp(expired)
          /\ LET live == (DOMAIN uploadSessions) \ expired
                 session == uploadSessions[uploadId]
                 status == IF uploadId = 0 THEN 400
                           ELSE IF uploadId \notin live THEN 404
                           ELSE IF session.receivedChunks # session.totalChunks
                                   \/ session.receivedBytes # session.totalSize
                           THEN 409
                           ELSE 0
             IN IF status # 0
                THEN /\ UNCHANGED <<apiInflight, addFileCalls>>
                     /\ Answered(h, TRUE, FALSE, status, {})
                ELSE /\ addFileCalls' = [addFileCalls EXCEPT ![uploadId] = @ + 1]
                     /\ apiInflight' = apiInflight \cup
                          {[kind |-> "complete", n |-> apiCount, head |-> h,
                            uploadId |-> uploadId, index |-> 0,
                            chunkSize |-> 0, expectedBytes |-> 0]}
                     /\ UNCHANGED apiLast

\* addFileEntry settles: the response, then cleanupUploadSession in the
\* finally block.
UploadCompleteEnd(r, resolves) ==
  /\ r.kind = "complete"
  /\ apiInflight' = apiInflight \ {r}
  /\ UNCHANGED <<vaultUnlocked, addFileCalls, nextUploadId, apiCount, nonApiVars>>
  /\ CleanedUp({r.uploadId})
  /\ Answered(r.head, TRUE, FALSE, IF resolves THEN 201 ELSE 500, {"addFileEntry"})

\* /api/files/upload/abort
UploadAbort(h) ==
  /\ Received
  /\ h.route = "uploadAbort"
  /\ UNCHANGED <<vaultUnlocked, apiInflight, addFileCalls, nextUploadId, nonApiVars>>
  /\ IF RequestGuards(h) # 0 \/ h.method # "POST"
     THEN /\ UNCHANGED <<uploadSessions, uploadFiles>>
          /\ Answered(h, TRUE, ~vaultUnlocked,
                      IF RequestGuards(h) # 0 THEN RequestGuards(h) ELSE 405, {})
     ELSE \E uploadId \in 0..MaxUploads :
            /\ CleanedUp({uploadId})
            /\ Answered(h, TRUE, ~vaultUnlocked,
                        IF uploadId = 0 THEN 400 ELSE 200, {})

InitApi ==
  /\ KeysAtRest
  /\ StegoIdle
  /\ FragIdle
  /\ ShellIdle
  /\ SyncIdle
  /\ KdfIdle
  /\ WebIdle
  /\ vaultUnlocked \in BOOLEAN
  /\ uploadSessions = <<>>
  /\ uploadFiles = <<>>
  /\ apiInflight = {}
  /\ addFileCalls = [u \in 1..MaxUploads |-> 0]
  /\ apiLast = NoRequest
  /\ nextUploadId = 0
  /\ apiCount = 0

\* A request arrives and runs to its response or to its first await.
ApiReceive ==
  \E h \in Heads :
    \/ ApiEntry(h)
    \/ ApiLock(h)
    \/ ApiUnlock(h)
    \/ UploadStart(h)
    \/ UploadChunkBegin(h)
    \/ UploadCompleteBegin(h)
    \/ UploadAbort(h)

\* A suspended request resumes.
ApiResume ==
  \E r \in apiInflight :
    \/ \E len \in UploadSizes \cup {MIN_UPLOAD_CHUNK_BYTES + 2} : UploadChunkBody(r, len)
    \/ \E resolves \in BOOLEAN : UploadCompleteEnd(r, resolves)

NextApi == ApiReceive \/ ApiResume

SpecApi == InitApi /\ [][NextApi]_vars

\* Requests are processed one after the other.
NextApiSequential == (apiInflight = {} /\ ApiReceive) \/ ApiResume

SpecApiSequential == InitApi /\ [][NextApiSequential]_vars

(***************************************************************************)
(* cli/shell.ts: startShell from the unlock prompt to the command loop     *)
(***************************************************************************)
maxAttempts == 5
maxTwoFAAttempts == 3

\* `while (!unlocked && attempts < maxAttempts)`: the next position.
UnlockLoopHead(unlocked, attempts) ==
  IF ~unlocked /\ attempts < maxAttempts THEN "attempt" ELSE "commandLoop"

\* The inner catch block: the attempt is reported as failed and the process
\* exits when no attempt remains; auditFails: logAuditEvent rejects (as it
\* then does again inside this block), which the outer catch block swallows.
InnerCatch(sh, auditFails) ==
  IF ~auditFails /\ sh.attempts = maxAttempts
  THEN [sh EXCEPT !.pc = "exited", !.exitCode = 1]
  ELSE [sh EXCEPT !.pc = UnlockLoopHead(sh.unlocked, sh.attempts)]

\* startShell reaches `if (!isUnlocked() && !checkDuressMode())`.
ShellStart ==
  /\ shell.pc = "start"
  /\ shell' = [shell EXCEPT !.pc = IF ~vaultUnlocked /\ ~shell.duress
                                   THEN "attempt" ELSE "commandLoop"]
  /\ UNCHANGED <<vaultUnlocked, uploadSessions, uploadFiles, apiInflight,
                 addFileCalls, apiLast, nextUploadId, apiCount, nonShellApiVars>>

\* One iteration of the unlock loop up to the 2FA prompt.  outcome:
\*   "error"      initializeKeyManager, promptPassword or
\*                checkDuressPasswordPreUnlock throws
\*   "cancelled"  the same with a message that includes 'cancelled'
\*   "duress"     the duress password was entered
\*   "rejected"   unlock(password) rejects
\*   "unlocked"   unlock(password) resolves
UnlockAttempt(outcome, auditFails) ==
  /\ shell.pc = "attempt"
  /\ LET sh == [shell EXCEPT !.attempts = @ + 1, !.last = outcome]
     IN CASE outcome = "error" ->
               /\ shell' = [sh EXCEPT !.pc = UnlockLoopHead(sh.unlocked, sh.attempts)]
               /\ UNCHANGED vaultUnlocked
          [] outcome = "cancelled" ->
               /\ shell' = [sh EXCEPT !.pc = "exited", !.exitCode = 0]
               /\ UNCHANGED vaultUnlocked
          [] outcome = "duress" ->
               /\ shell' = [sh EXCEPT !.duress = TRUE, !.unlocked = TRUE,
                                      !.pc = "commandLoop"]
               /\ UNCHANGED vaultUnlocked
          [] outcome = "rejected" ->
               /\ shell' = InnerCatch(sh, auditFails)
               /\ UNCHANGED vaultUnlocked
          [] outcome = "unlocked" ->
               /\ vaultUnlocked' = TRUE
               /\ LET un == [sh EXCEPT !.unlocked = TRUE, !.passwordAccepted = TRUE]
                  IN shell' = IF shell.twoFAEnabled
                              THEN [un EXCEPT !.pc = "2fa"]
                              ELSE IF auditFails THEN InnerCatch(un, TRUE)
                              ELSE [un EXCEPT !.pc = "commandLoop"]
  /\ UNCHANGED <<uploadSessions, uploadFiles, apiInflight, addFileCalls, apiLast,
                 nextUploadId, apiCount, nonShellApiVars>>

\* One iteration of the 2FA loop.  outcome:
\*   "valid"    a TOTP code or a stored backup code verifies
\*   "invalid"  the code verifies as neither
\*   "throws"   prompt2FACode, the verification, useBackupCode or
\*              logAuditEvent throws
TwoFACode(outcome, auditFails) ==
  /\ shell.pc = "2fa"
  /\ LET sh == [shell EXCEPT !.twoFAAttempts = @ + 1, !.last = outcome]
     IN CASE outcome = "valid" ->
               /\ shell' = IF auditFails
                           THEN InnerCatch([sh EXCEPT !.twoFAVerified = TRUE], TRUE)
                           ELSE [sh EXCEPT !.twoFAVerified = TRUE, !.pc = "commandLoop"]
               /\ UNCHANGED vaultUnlocked
          [] outcome = "invalid" ->
               IF sh.twoFAAttempts < maxTwoFAAttempts
               THEN /\ shell' = sh
                    /\ UNCHANGED vaultUnlocked
               ELSE IF auditFails
               THEN /\ shell' = InnerCatch([sh EXCEPT !.twoFAFailed = TRUE], TRUE)
                    /\ UNCHANGED vaultUnlocked
               ELSE /\ shell' = [sh EXCEPT !.twoFAFailed = TRUE, !.pc = "exited",
                                           !.exitCode = 1]
                    /\ vaultUnlocked' = FALSE
          [] outcome = "throws" ->
               /\ shell' = InnerCatch([sh EXCEPT !.twoFAFailed = TRUE], auditFails)
               /\ UNCHANGED vaultUnlocked
  /\ UNCHANGED <<uploadSessions, uploadFiles, apiInflight, addFileCalls, apiLast,
                 nextUploadId, apiCount, nonShellApiVars>>

InitShell ==
  /\ KeysAtRest
  /\ StegoIdle
  /\ FragIdle
  /\ SyncIdle
  /\ KdfIdle
  /\ WebIdle
  /\ \E duress, twoFAEnabled \in BOOLEAN :
       shell = [pc |-> "start", duress |-> duress, twoFAEnabled |-> twoFAEnabled,
                unlocked |-> FALSE, attempts |-> 0, twoFAAttempts |-> 0,
                twoFAVerified |-> FALSE, twoFAFailed |-> FALSE,
                passwordAccepted |-> FALSE, exitCode |-> -1, last |-> "none"]
  /\ vaultUnlocked \in BOOLEAN
  /\ uploadSessions = <<>>
  /\ uploadFiles = <<>>
  /\ apiInflight = {}
  /\ addFileCalls = <<>>
  /\ apiLast = NoRequest
  /\ nextUploadId = 0
  /\ apiCount = 0

NextShell ==
  \/ ShellStart
  \/ \E outcome \in {"error", "cancelled", "duress", "rejected", "unlocked"},
        auditFails \in BOOLEAN :
       UnlockAttempt(outcome, auditFails)
  \/ \E outcome \in {"valid", "invalid", "throws"}, auditFails \in BOOLEAN :
       TwoFACode(outcome, auditFails)

SpecShell == InitShell /\ [][NextShell]_vars

(***************************************************************************)
(* Properties of the key manager                                           *)
(***************************************************************************)
Locked ==
  /\ \A h \in Holders : ~key[h]
  /\ currentSalt = NULL
  /\ keyHash = NULL
  /\ ~isVaultUnlocked
  /\ \A h \in SubKeyHolders : GetKeyOutcome(h) = LOCKED_ERROR

\* C1: once lockVault() has completed, no holder holds a key, the cached salt
\* and key hash are null, isVaultUnlocked() is false and getIndexKey(),
\* getEntryKey(), getMetadataKey() fail with the locked error; this stays so
\* across every step that is not the completion of unlockVault()/createVault().
C1_LockClearsAll ==
  /\ [](lastOp = "lockVault" => Locked)
  /\ [][(Locked /\ lastOp' \notin {"unlockVault", "createVault"}) => Locked']_vars

C1_Witness == lastOp = "lockVault" /\ heldBefore /\ Locked

TimersOf(h) == {t \in timers : t[1] = h}

\* C3: a held key has exactly one pending timer, due timeoutMs after the most
\* recent setKey()/getKey() on that holder; a holder without a key has no
\* pending timer; and the expiry timer clears a key exactly timeoutMs after
\* that most recent access.
C3_ExpiryAfterLastAccess ==
  /\ \A h \in Holders :
       /\ key[h] =>
            /\ timeoutId[h] = lastAccess[h] + DEFAULT_TIMEOUT_MS
            /\ TimersOf(h) = {<<h, timeoutId[h]>>}
            /\ now <= lastAccess[h] + DEFAULT_TIMEOUT_MS
       /\ ~key[h] => (timeoutId[h] = NULL /\ TimersOf(h) = {})
       /\ Cardinality(TimersOf(h)) <= 1
  /\ expiryLag \in {NULL, DEFAULT_TIMEOUT_MS}

C3_Witness ==
  /\ lastOp = "timerExpiry"
  /\ expiryLag = DEFAULT_TIMEOUT_MS
  /\ ~key["master"]
  /\ \E h \in SubKeyHolders : key[h] /\ lastAccess[h] > 0

\* C4: the auto-lock timeout 0 is accepted, and no key installed while the
\* timeout is 0 is ever cleared by the expiry timer.
C4_ZeroDisablesExpiry ==
  /\ (lastOp = "autolock" /\ lastResult = "ok:0") => autoLockMinutes = 0
  /\ ~expiredOff

\* C5: whenever the process has terminated (normal exit, SIGINT, SIGTERM or
\* uncaught exception), every key buffer is all-zero and the tracked-buffer
\* set is empty, whichever path installed the keys.
C5_ExitWipesKeys ==
  procState = "exited" =>
    /\ \A h \in Holders : buf[h] = 0
    /\ SECURE_BUFFERS = {}

(***************************************************************************)
(* Properties of the PNG codec                                             *)
(***************************************************************************)
Capacity(png) == (png.width * png.height * 3) \div 8 - 16

\* C6: for every carrier and payload that embedInPNG accepts, extractFromPNG
\* on the written file returns exactly the payload, and the checksum reported
\* by embed and by extract is checksum8(payload).
C6_RoundTrip ==
  /\ embedRes = "ok" => embedChecksum = ToHex(SubSeq(sha256(payload), 1, 8))
  /\ (embedRes = "ok" /\ extractRes # "none") =>
       /\ extractRes = "ok"
       /\ extractData = payload
       /\ extractChecksum = embedChecksum

C6_Witness ==
  /\ embedRes = "ok"
  /\ extractRes = "ok"
  /\ Len(payload) > 0
  /\ Len(payload) = Capacity(carrier)

\* C7: embedInPNG succeeds exactly when |data| <= floor(W*H*3/8) - 16; when it
\* fails, no pixel has been modified and no output file has been written; a
\* 100x100 carrier has capacity 3734.
C7_CapacityBoundary ==
  /\ calculateCapacity(100, 100) = 3734
  /\ embedRes # "none" =>
       /\ embedRes = "ok" <=> Len(payload) <= Capacity(carrier)
       /\ Len(payload) > Capacity(carrier) =>
            /\ embedRes = "CarrierTooSmall"
            /\ pngData = carrier.data
            /\ outFile = <<>>

C7_Witness ==
  /\ embedRes = "CarrierTooSmall"
  /\ Capacity(carrier) >= 0
  /\ Len(payload) = Capacity(carrier) + 1

\* C8: embedInPNG leaves every alpha byte and every R/G/B byte past the first
\* 8*(16+|data|) channel positions unchanged, and changes at most the
\* least-significant bit of any byte.
C8_OnlyPayloadLsbs ==
  embedRes = "ok" =>
    LET before == carrier.data
        after == outFile[1].data
        nbits == 8 * (16 + Len(payload))
    IN /\ Len(after) = Len(before)
       /\ \A i \in 1..Len(before) :
            LET c == (i - 1) % 4
                q == 3 * ((i - 1) \div 4) + c
            IN /\ c = 3 => after[i] = before[i]
               /\ (c < 3 /\ q >= nbits) => after[i] = before[i]
               /\ after[i] \div 2 = before[i] \div 2

C8_Witness ==
  /\ embedRes = "ok"
  /\ outFile[1].data # carrier.data
  /\ 8 * (16 + Len(payload)) < carrier.width * carrier.height * 3

\* C9: extractFromPNG never allocates a data buffer larger than the capacity
\* of the image it reads.
C9_AllocationBounded ==
  allocLen # NULL => allocLen <= Capacity(extractIn[1])

\* The R/G/B value at channel position q (row-major, alpha skipped).
ChannelAt(png, q) == png.data[(q \div 3) * 4 + (q % 3) + 1]

\* Byte k (from 0) of the bit stream formed by the R/G/B least-significant bits.
LsbByte(png, k) ==
  LET b(n) == ChannelAt(png, 8 * k + n) % 2
  IN 128 * b(0) + 64 * b(1) + 32 * b(2) + 16 * b(3)
     + 8 * b(4) + 4 * b(5) + 2 * b(6) + b(7)

LsbBytes(png, from, n) == [i \in 1..n |-> LsbByte(png, from + i - 1)]

\* C10: on an image with at least 16 bytes of R/G/B bits, extractFromPNG
\* fails with NoPayload when they do not start with "SLSH", with Truncated
\* when the channels end before the header's number of data bytes, with
\* Corrupt when checksum8 of the data differs from the header checksum; it
\* returns data (the bytes after the header) only when none of these applies.
C10_ExtractErrors ==
  extractRes # "none" =>
    LET png == extractIn[1]
        bits == png.width * png.height * 3
        hdrRead == bits >= 8 * HEADER_SIZE
        hdr == LsbBytes(png, 0, HEADER_SIZE)
        magicOk == SubSeq(hdr, 1, 4) = <<83, 76, 83, 72>>
        length == ReadUInt32BE(SubSeq(hdr, 5, 8))
        truncated == length > (bits - 8 * HEADER_SIZE) \div 8
        data == LsbBytes(png, HEADER_SIZE, length)
        mismatch == ToHex(SubSeq(sha256(data), 1, 8)) # ToHex(SubSeq(hdr, 9, 16))
    IN /\ (hdrRead /\ ~magicOk) => extractRes = "NoPayload"
       /\ (hdrRead /\ magicOk /\ truncated) => extractRes = "Truncated"
       /\ (hdrRead /\ magicOk /\ ~truncated /\ mismatch) => extractRes = "Corrupt"
       /\ extractRes = "ok" =>
            /\ hdrRead /\ magicOk /\ ~truncated /\ ~mismatch
            /\ extractData = data

C10_Witness ==
  /\ extractRes = "Corrupt"
  /\ embedRes = "none"
  /\ allocLen = Len(payload)
  /\ Len(payload) > 0

\* The written file was read back with one header bit inverted.
Tampered ==
  /\ embedRes = "ok"
  /\ extractRes # "none"
  /\ extractIn[1] # outFile[1]

AllSupplied == Len(reasmIn) = Len(fragments)

\* C12: fragmentData returns fragments for every payload; reassembling all
\* of them, in any order and also after serializeFragment/deserializeFragment,
\* returns the payload; reassembling all but one of them fails.
C12_RoundTrip ==
  /\ fragRes # "TypeError"
  /\ (reasmRes # "none" /\ AllSupplied) =>
       (reasmRes = "ok" /\ reasmData = fragIn[1])
  /\ (reasmRes # "none" /\ ~AllSupplied) =>
       (reasmRes \in {"NoFragments", "Missing"} /\ reasmData = <<>>)

\* C13: for a payload longer than minChunk and no longer than 100*maxChunk,
\* every fragment but the last carries between minChunk and maxChunk bytes,
\* and the last carries at most maxChunk bytes.
C13_ChunkBounds ==
  (fragRes = "ok" /\ Len(fragIn[1]) > fragIn[3]
                  /\ Len(fragIn[1]) <= 100 * fragIn[2]) =>
    /\ \A i \in 1..(Len(fragments) - 1) :
         /\ Len(fragments[i].data) >= fragIn[3]
         /\ Len(fragments[i].data) <= fragIn[2]
    /\ Len(fragments[Len(fragments)].data) <= fragIn[2]

\* Number of fragments the payload calls for:
\* clamp(ceil(|payload| / ((minChunk + maxChunk) / 2)), 2, 100), or 1.
ExpectedCount ==
  LET n == Len(fragIn[1])
      twiceAvg == fragIn[2] + fragIn[3]
      estimate == (2 * n + twiceAvg - 1) \div twiceAvg
  IN IF n <= fragIn[3] THEN 1
     ELSE IF estimate < 2 THEN 2 ELSE IF estimate > 100 THEN 100 ELSE estimate

\* The fragments fragmentData returned are numbered 0, 1, .. in output order
\* and their number is ExpectedCount, which every total field repeats.
WellNumbered ==
  /\ Len(fragments) = ExpectedCount
  /\ \A i \in 1..Len(fragments) :
       fragments[i].index = i - 1 /\ fragments[i].total = Len(fragments)

\* C14: fragmentData emits one fragment {index 0, total 1} when the payload
\* is no longer than minChunk, and otherwise clamp(ceil(|payload| /
\* ((minChunk+maxChunk)/2)), 2, 100) fragments with index 0, 1, .. in output
\* order and total equal to their number.
C14_FragmentCount ==
  fragRes # "none" => (fragRes = "ok" /\ WellNumbered)

\* The list holds as many fragments as its first fragment's total says, with
\* the indices 0..total-1 each exactly once.
Complete(frs) ==
  /\ Len(frs) > 0
  /\ Len(frs) = frs[1].total
  /\ \A k \in 0..(Len(frs) - 1) :
       Cardinality({i \in 1..Len(frs) : frs[i].index = k}) = 1

InIndexOrder(frs) ==
  [k \in 1..Len(frs) |-> frs[CHOOSE i \in 1..Len(frs) : frs[i].index = k - 1]]

\* C15: reassembleFragments returns data exactly when it is given `total`
\* fragments (total as its first fragment states it) whose indices are
\* 0..total-1 each exactly once, and the data is then the concatenation in
\* index order; for an empty list, a missing or a duplicated index it fails
\* and returns no data.
C15_ReassembleComplete ==
  reasmRes # "none" =>
    /\ Complete(reasmIn) =>
         (reasmRes = "ok" /\ reasmData = ConcatData(InIndexOrder(reasmIn)))
    /\ ~Complete(reasmIn) =>
         (reasmRes \in {"NoFragments", "Missing"} /\ reasmData = <<>>)
    /\ reasmIn = <<>> => reasmRes = "NoFragments"

C15_Witness ==
  /\ reasmRes = "ok"
  /\ Len(reasmIn) = MaxListLen
  /\ reasmIn[1].index = MaxListLen - 1
  /\ reasmData # ConcatData(reasmIn)

\* C16: deserializeFragment fails with Corrupt, and returns no fragment, on a
\* serialized fragment in which any one byte, of the header or of the data,
\* has been flipped.
C16_TamperCorrupt ==
  (deserRes # "none" /\ deserIn[3] # 0) =>
    (deserRes = "Corrupt" /\ deserOut = <<>>)

(***************************************************************************)
(* Properties of sync, upload and download                                 *)
(***************************************************************************)
CallFinished ==
  \/ lastCall \in {"uploadEntry", "downloadEntry"}
  \/ lastCall = "syncCommand" /\ sync.pc = "done"

\* C17: once uploadEntry, downloadEntry or syncCommand has finished, normally
\* or with a failure at any step, no file the call wrote into carriers/ is
\* still on disk.
C17_NoTempFilesLeft ==
  CallFinished => created \cap carriersDir = {}

\* ids lists, in index order, one Drive file for every fragment of entry e.
CompleteHandles(ids, e, files) ==
  /\ Len(ids) > 0
  /\ \A i \in 1..Len(ids) :
       [id |-> ids[i], entry |-> e, index |-> i - 1, total |-> Len(ids)] \in files

\* C18: an entry's fragments list is always empty or the complete list of
\* the Drive files of its fragments in fragment order; it changes only from
\* empty to such a list; a failure on a fragment leaves it unchanged.
C18_IndexAtomic ==
  /\ [](\A e \in 1..NumEntries :
          entryFragments[e] = <<>>
          \/ CompleteHandles(entryFragments[e], e, driveFiles))
  /\ [][\A e \in 1..NumEntries :
          entryFragments'[e] # entryFragments[e] =>
            /\ entryFragments[e] = <<>>
            /\ CompleteHandles(entryFragments'[e], e, driveFiles')
            /\ Len(entryFragments'[e]) = sync.fragments]_vars

C18_Witness ==
  /\ lastCall = "syncCommand"
  /\ sync.pc = "done"
  /\ \E e1, e2 \in 1..NumEntries :
       /\ Len(entryFragments[e1]) = MaxFragsPerEntry
       /\ entryFragments[e2] = <<>>
       /\ \E f \in driveFiles : f.entry = e2

(***************************************************************************)
(* Properties of key derivation                                            *)
(***************************************************************************)
\* Some parameter is below its default.
Weaker(params) ==
  \/ params.timeCost < DEFAULT_KDF_PARAMS.timeCost
  \/ params.memoryCost < DEFAULT_KDF_PARAMS.memoryCost
  \/ params.parallelism < DEFAULT_KDF_PARAMS.parallelism
  \/ params.hashLength < DEFAULT_KDF_PARAMS.hashLength

\* C19: deriveKey called with a parameter set weaker than the defaults
\* (timeCost 3, memoryCost 64 MiB, parallelism 4, hashLength 32) fails and
\* produces no key.
C19_RejectsWeaker ==
  (kdfRes # "none" /\ Weaker(kdfParams)) => (kdfRes = "rejected" /\ kdfKey = <<>>)

(***************************************************************************)
(* Properties of the Web UI server                                         *)
(***************************************************************************)
\* C20: a request whose handler failed with something other than an
\* HttpError is answered with status 500 and the body
\* {error: 'Internal Server Error'}, and the failure's message is not in the
\* response body.
C20_GenericInternalError ==
  (webRes.status # 0 /\ webThrown.kind \in {"Error", "value"}) =>
    /\ webRes.status = 500
    /\ webRes.body = [error |-> "Internal Server Error"]
    /\ webRes.body.error # webThrown.message

(***************************************************************************)
(* Properties of the Web UI API                                            *)
(***************************************************************************)
\* The requests that list, create, read, update, delete or favourite an
\* entry, start, append to or complete an upload, or download a file.
EntryOrFileOperation(a) ==
  \/ a.route = "entries" /\ a.method \in {"GET", "POST"}
  \/ a.route = "entry" /\ a.method \in {"GET", "PUT", "DELETE"}
  \/ a.route = "favorite" /\ a.method = "POST"
  \/ a.route \in {"uploadStart", "uploadChunk", "uploadComplete"} /\ a.method = "POST"
  \/ a.route = "download" /\ a.method = "GET"

\* C21 as stated: a request for an entry or file operation received while
\* the vault is locked is answered 423 and calls nothing of the vault.
C21_Locked423 ==
  (apiLast.locked /\ EntryOrFileOperation(apiLast)) =>
    (apiLast.status = 423 /\ apiLast.vaultOps = {})

\* C21: a request for an entry or file operation received while the vault
\* is locked calls nothing of the vault and changes no upload session; it is
\* answered 423, unless an earlier check rejects it: 403 for a Host that is
\* not a loopback name or a write method without the X-BlankDrive-UI header,
\* 400 for an entry id in the path that does not decode.
C21_LockedNoVaultAccess ==
  (apiLast.locked /\ EntryOrFileOperation(apiLast)) =>
    /\ apiLast.vaultOps = {}
    /\ ~apiLast.sessionsChanged
    /\ apiLast.status =
         IF ~apiLast.loopback \/ (isWriteMethod(apiLast.method) /\ ~apiLast.uiHeader)
         THEN 403
         ELSE IF apiLast.route \in {"entry", "favorite", "download"} /\ ~apiLast.idOk
         THEN 400
         ELSE 423

C21_Witness ==
  /\ apiLast.locked
  /\ apiLast.route = "uploadComplete"
  /\ apiLast.method = "POST"
  /\ apiLast.status = 423
  /\ nextUploadId = 1

\* C22: a request with a write method (POST, PUT, PATCH, DELETE) that lacks
\* the header X-BlankDrive-UI: 1 is answered 403, calls nothing of the
\* vault, and creates, changes and removes no upload session.
C22_WriteGuard ==
  (apiLast.status # 0 /\ isWriteMethod(apiLast.method) /\ ~apiLast.uiHeader) =>
    /\ apiLast.status = 403
    /\ apiLast.vaultOps = {}
    /\ ~apiLast.sessionsChanged

C22_Witness ==
  /\ apiLast.route = "uploadAbort"
  /\ apiLast.method = "POST"
  /\ apiLast.loopback
  /\ ~apiLast.uiHeader
  /\ ~apiLast.locked
  /\ apiLast.status = 403
  /\ DOMAIN uploadSessions # {}

(***************************************************************************)
(* Properties of the four key holders together                             *)
(***************************************************************************)
\* No expiry callback is due and still to run.
NoTimerDue == \A t \in timers : t[2] > now

\* C23: in every state of the running process isVaultUnlocked() is true
\* exactly when getIndexKey(), getEntryKey() and getMetadataKey() would all
\* return a key; in particular no subkey is held once the master key has
\* expired.  (States in which expiry callbacks are due but have not all run
\* are left out.)
C23_HoldersAgree ==
  (Running /\ NoTimerDue) =>
    (isVaultUnlocked <=> (\A h \in SubKeyHolders : hasKey(KM, h)))

(***************************************************************************)
(* Properties of startShell                                                *)
(***************************************************************************)
\* C24: with vault 2FA enabled, startShell is in the command loop with a
\* vault it unlocked only if a TOTP or backup code was verified; after 3
\* invalid codes, or when the 2FA step did not complete, the command loop
\* is not entered (the process has exited).
C24_SecondFactorRequired ==
  /\ (shell.pc = "commandLoop" /\ shell.twoFAEnabled /\ shell.passwordAccepted
      /\ vaultUnlocked)
       => shell.twoFAVerified
  /\ (shell.pc \in {"commandLoop", "exited"} /\ shell.twoFAFailed)
       => shell.pc = "exited"

\* C25: startShell is in the command loop only if the vault is unlocked or
\* duress mode is active; after 5 attempts of which none succeeded the
\* process has exited.
C25_UnlockedOrExit ==
  /\ shell.pc = "commandLoop" => (vaultUnlocked \/ shell.duress)
  /\ (shell.pc \in {"commandLoop", "exited"} /\ shell.attempts = maxAttempts
      /\ ~shell.unlocked)
       => shell.pc = "exited"

(***************************************************************************)
(* Properties of the upload sessions                                       *)
(***************************************************************************)
\* The number of bytes in an upload file.
RECURSIVE FileBytes(_)
FileBytes(chunks) ==
  IF chunks = <<>> THEN 0 ELSE Head(chunks)[2] + FileBytes(Tail(chunks))

\* C26: in every upload session each chunk index has been appended to the
\* upload file at most once, also with chunk requests in flight together;
\* receivedBytes is the size of the upload file and is at most totalSize.
C26_ChunkAppendedOnce ==
  \A u \in DOMAIN uploadSessions :
    /\ \A i, j \in 1..Len(uploadFiles[u]) :
         uploadFiles[u][i][1] = uploadFiles[u][j][1] => i = j
    /\ uploadSessions[u].receivedBytes = FileBytes(uploadFiles[u])
    /\ uploadSessions[u].receivedBytes <= uploadSessions[u].totalSize

\* C27: with requests processed one after the other, every upload session
\* has receivedChunks = nextChunkIndex <= totalChunks and
\* receivedBytes = min(nextChunkIndex * chunkSize, totalSize), so that no
\* chunk with an index >= totalChunks has been accepted.
C27_SessionCounters ==
  \A u \in DOMAIN uploadSessions :
    LET session == uploadSessions[u]
    IN /\ session.receivedChunks = session.nextChunkIndex
       /\ session.nextChunkIndex <= session.totalChunks
       /\ session.receivedBytes =
            MathMin(session.nextChunkIndex * session.chunkSize, session.totalSize)

\* C28: addFileEntry has been called at most once for each upload session,
\* also with several complete requests for it in flight together.
C28_AddFileEntryOnce ==
  \A u \in DOMAIN addFileCalls : addFileCalls[u] <= 1

(***************************************************************************)
(* Properties of the Host header check                                     *)
(***************************************************************************)
Digits == <<"0", "1", "2", "3", "4", "5", "6", "7", "8", "9">>

\* The parts of a string between the dots.
RECURSIVE SplitAtDots(_)
SplitAtDots(str) ==
  IF indexOf(str, ".") = -1 THEN <<str>>
  ELSE <<slice(str, 0, indexOf(str, "."))>>
       \o SplitAtDots(slice(str, indexOf(str, ".") + 1, Len(str)))

IsDecimal(str) ==
  /\ Len(str) \in 1..3
  /\ \A i \in 1..Len(str) : \E d \in 1..10 : Digits[d] = str[i]

RECURSIVE DecimalValue(_)
DecimalValue(str) ==
  IF str = <<>> THEN 0
  ELSE 10 * DecimalValue(SubSeq(str, 1, Len(str) - 1))
       + (CHOOSE d \in 1..10 : Digits[d] = str[Len(str)]) - 1

\* An IPv4 address of 127.0.0.0/8, written as four decimal numbers.
InLoopbackNet(hostName) ==
  LET parts == SplitAtDots(hostName)
  IN /\ Len(parts) = 4
     /\ \A i \in 1..4 : IsDecimal(parts[i]) /\ DecimalValue(parts[i]) <= 255
     /\ DecimalValue(parts[1]) = 127

\* The host name is localhost, ::1 or an address of 127.0.0.0/8.
NamesLoopback(hostName) ==
  \/ hostName = <<"l", "o", "c", "a", "l", "h", "o", "s", "t">>
  \/ hostName = <<":", ":", "1">>
  \/ hostName # Null /\ InLoopbackNet(hostName)

\* C29: a request is handled only if the host name of its Host header is
\* localhost, ::1 or an IPv4 address of 127.0.0.0/8; a request with any other
\* Host header is answered 403 and no page or API route is processed.
C29_LoopbackHostOnly ==
  webRes.status # 0 =>
    (NamesLoopback(parseHostName(webReq.host))
       <=> webThrown # HttpError(403, "Web UI is only accessible via loopback (localhost / 127.0.0.1 / ::1)."))

(***************************************************************************)
(* Fragments that disagree on the fragment count                           *)
(***************************************************************************)
DifferentTotals(frs) ==
  \E i, j \in 1..Len(frs) : frs[i].total # frs[j].total

\* C30: reassembleFragments fails, and returns no data, on every fragment
\* list in which two fragments carry different `total` values, in whatever
\* order the fragments are passed.
C30_RejectsDifferentTotals ==
  (reasmRes # "none" /\ DifferentTotals(reasmIn)) =>
    (reasmRes = "Missing" /\ reasmData = <<>>)

====
